---------------------------- MODULE Spec2Model ----------------------------
(***************************************************************************)
(* Grid-cube visualisation: the geometric classification functions of      *)
(* classification.js and the displacement / classification functions of    *)
(* script3d.js.                                                            *)
(*                                                                         *)
(* Numbers.  JavaScript numbers are modelled in fixed point: a value v is  *)
(* the integer v * Scale (thousandths).  Math.sqrt is never rounded where  *)
(* the code compares it: sqrt(x) <= c is decided as x <= c^2 on the        *)
(* integers.  On the inputs drawn here (integer grid coordinates, and      *)
(* coordinates with two decimals) the real comparison and the IEEE-754     *)
(* comparison agree: the compared values are either equal with both sides  *)
(* exactly representable, or they differ by more than 1e-7, far above the  *)
(* rounding error of a double.                                             *)
(***************************************************************************)
EXTENDS Integers, FiniteSets, Sequences, TLC

VARIABLES
    call,      \* classification.js: the arguments of the calls made
    ret,       \* classification.js: what each exported function returned
    config,    \* script3d.js: the global config object
    point,     \* script3d.js: the grid indices (i, j) of the point examined
    frontPoint, \* script3d.js: frontPoints[i][j] and its classification
    localStorage, \* script3d.js: the item stored under 'gridCubeConfig'
    geometry,  \* script3d.js: what updateVisualization built for the groups
    pointSliderMax, \* script3d.js: the max of pointXSlider and pointYSlider
    events,    \* the number of UI events handled so far
    previous,  \* config and geometry as they were before the last UI event
    frontGridPoint, \* script.js: frontGrid[i][j] of createGridLayers
    divisions, \* which displacement functions ran and what they divided by
    cloth,     \* cube-grid.js: idealHeights and heights of createCloth
    drape,     \* grid-drape.js: collisionZ and currentZ of updateVisualization
    frontGridGroup \* part_010: the lines createGridLines drew for the front layer

uiVars == <<pointSliderMax, events, previous>>

otherVars == <<frontGridPoint, divisions, cloth, drape, frontGridGroup>>

vars == <<call, ret, config, point, frontPoint, localStorage, geometry, uiVars, otherVars>>

(***************************************************************************)
(* Bounds of the model.                                                    *)
(***************************************************************************)
MaxCoord == 8
MaxSize == 5
MaxDensity == 5
MaxCubeSize == 3

(***************************************************************************)
(* Number representation.                                                  *)
(***************************************************************************)
Scale == 1000

Num(n) == n * Scale

Abs(x) == IF x < 0 THEN -x ELSE x

Max(a, b) == IF a >= b THEN a ELSE b

\* Math.sqrt(x) <= c, for the radicand x >= 0 (x in Scale^2 units, c in Scale units)
SqrtLeq(x, c) == c >= 0 /\ x <= c * c

\* Math.sqrt(x) >= c
SqrtGeq(x, c) == c <= 0 \/ x >= c * c

\* Math.sqrt(x) < c
SqrtLt(x, c) == c > 0 /\ x < c * c

\* the largest r in lo..hi with r * r <= x, given lo * lo <= x
RECURSIVE SqrtBisect(_, _, _)
SqrtBisect(x, lo, hi) ==
    IF lo >= hi THEN lo
    ELSE LET mid == (lo + hi + 1) \div 2
         IN  IF mid * mid <= x THEN SqrtBisect(x, mid, hi)
             ELSE SqrtBisect(x, lo, mid - 1)

\* Math.sqrt(x) rounded down to an integer, for 0 <= x < 2^31
SqrtFloor(x) == SqrtBisect(x, 0, IF x < 46340 THEN x ELSE 46340)

\* Math.cos(t * Math.PI) for t in [0, 1], t and the result in Scale units.
\* The cosine is Bhaskara's rational approximation
\* cos(pi t) ~ (1 - 4 t^2) / (1 + t^2) on [0, 1/2], mirrored on [1/2, 1]:
\* exact at t = 0, 1/2 and 1, within 0.002 elsewhere, and non-increasing
\* (the displacement it yields is within 0.4% of zSeparation of the code's).
CosPi(t) ==
    IF 2 * t <= Scale
    THEN (Scale * (Scale * Scale - 4 * t * t)) \div (Scale * Scale + t * t)
    ELSE LET u == Scale - t
         IN  -((Scale * (Scale * Scale - 4 * u * u)) \div (Scale * Scale + u * u))

\* a value classifyPoint never returns: the call has not been made
NoRet == "none"


(***************************************************************************)
(* classification.js: pure geometric classification functions.  Every      *)
(* argument is a number in Scale units.                                    *)
(***************************************************************************)
\* 0.7: the half-width of the sphere's surface band
SurfaceTol == 700

\* 0.1: the displacement above which a point counts as cloth
ClothThreshold == 100

\* slip: the edge itself left out (< for <=)
isInsideCube_Strict(i, j, centerX, centerY, cubeSize) ==
    LET dx == Abs(i - centerX)
        dy == Abs(j - centerY)
        gridDistance == Max(dx, dy)
    IN  gridDistance < cubeSize - Num(1)

isInsideCube(i, j, centerX, centerY, cubeSize) ==
    LET dx == Abs(i - centerX)
        dy == Abs(j - centerY)
        gridDistance == Max(dx, dy)
    IN  gridDistance <= cubeSize - Num(1)

\* slip: the edge taken at distance cubeSize instead of cubeSize - 1
isOnCubeEdge_OffByOne(i, j, centerX, centerY, cubeSize) ==
    LET dx == Abs(i - centerX)
        dy == Abs(j - centerY)
        maxDist == Max(dx, dy)
    IN  maxDist = cubeSize

isOnCubeEdge(i, j, centerX, centerY, cubeSize) ==
    LET dx == Abs(i - centerX)
        dy == Abs(j - centerY)
        maxDist == Max(dx, dy)
    IN  maxDist = cubeSize - Num(1)

\* slip: the surface itself left out (< for <=)
isInsideSphere_Strict(i, j, centerX, centerY, sphereRadius) ==
    LET dx == i - centerX
        dy == j - centerY
        distance2 == dx * dx + dy * dy
    IN  SqrtLt(distance2, sphereRadius - Num(1))

\* distance = Math.sqrt(dx * dx + dy * dy) is kept as its radicand
isInsideSphere(i, j, centerX, centerY, sphereRadius) ==
    LET dx == i - centerX
        dy == j - centerY
        distance2 == dx * dx + dy * dy
    IN  SqrtLeq(distance2, sphereRadius - Num(1))

\* slip: a band of 0.5 grid units, as the comment in script3d.js still says
isOnSphereSurface_Half(i, j, centerX, centerY, sphereRadius) ==
    LET dx == i - centerX
        dy == j - centerY
        distance2 == dx * dx + dy * dy
    IN  /\ SqrtLeq(distance2, (sphereRadius - Num(1)) + 500)
        /\ SqrtGeq(distance2, (sphereRadius - Num(1)) - 500)

\* slip: a tolerance of one whole grid unit
isOnSphereSurface_Wide(i, j, centerX, centerY, sphereRadius) ==
    LET dx == i - centerX
        dy == j - centerY
        distance2 == dx * dx + dy * dy
    IN  /\ SqrtLeq(distance2, (sphereRadius - Num(1)) + Scale)
        /\ SqrtGeq(distance2, (sphereRadius - Num(1)) - Scale)

\* slip: Math.abs dropped, so everything below the band counts as surface
isOnSphereSurface_NoAbs(i, j, centerX, centerY, sphereRadius) ==
    LET dx == i - centerX
        dy == j - centerY
        distance2 == dx * dx + dy * dy
    IN  SqrtLeq(distance2, (sphereRadius - Num(1)) + SurfaceTol)

\* Math.abs(distance - (sphereRadius - 1)) <= 0.7
isOnSphereSurface(i, j, centerX, centerY, sphereRadius) ==
    LET dx == i - centerX
        dy == j - centerY
        distance2 == dx * dx + dy * dy
    IN  /\ SqrtLeq(distance2, (sphereRadius - Num(1)) + SurfaceTol)
        /\ SqrtGeq(distance2, (sphereRadius - Num(1)) - SurfaceTol)

\* slip: any type that is not a sphere is taken for a cube
isInsideShape_CubeByDefault(i, j, shapeType, size, centerX, centerY) ==
    IF shapeType = "sphere" THEN isInsideSphere(i, j, centerX, centerY, size)
    ELSE isInsideCube(i, j, centerX, centerY, size)

isInsideShape(i, j, shapeType, size, centerX, centerY) ==
    IF shapeType = "cube" THEN isInsideCube(i, j, centerX, centerY, size)
    ELSE IF shapeType = "sphere" THEN isInsideSphere(i, j, centerX, centerY, size)
    ELSE FALSE

isOnShapeShell(i, j, shapeType, size, centerX, centerY) ==
    IF shapeType = "cube" THEN isOnCubeEdge(i, j, centerX, centerY, size)
    ELSE IF shapeType = "sphere" THEN isOnSphereSurface(i, j, centerX, centerY, size)
    ELSE FALSE

\* frontGrid is given by the one entry the function reads, frontGrid[i][j]
isInClothRegion(i, j, frontGrid) ==
    Abs(frontGrid.pull) > ClothThreshold

\* slip: the volume test made before the shell test
classifyPoint_InsideFirst(i, j, z, frontGrid, cfg) ==
    LET isOnShell == isOnShapeShell(i, j, cfg.shapeType, cfg.cubeSize,
                                    cfg.selectedPointX, cfg.selectedPointY)
        isInShape == isInsideShape(i, j, cfg.shapeType, cfg.cubeSize,
                                   cfg.selectedPointX, cfg.selectedPointY)
    IN  IF isInShape THEN "inside-shape"
        ELSE IF isOnShell THEN "shape-shell"
        ELSE "cloth"

\* cfg is the config argument; z and frontGrid are accepted and not read
classifyPoint(i, j, z, frontGrid, cfg) ==
    LET isOnShell == isOnShapeShell(i, j, cfg.shapeType, cfg.cubeSize,
                                    cfg.selectedPointX, cfg.selectedPointY)
        isInShape == isInsideShape(i, j, cfg.shapeType, cfg.cubeSize,
                                   cfg.selectedPointX, cfg.selectedPointY)
    IN  IF isOnShell THEN "shape-shell"
        ELSE IF isInShape THEN "inside-shape"
        ELSE "cloth"

(***************************************************************************)
(* The calls made to classification.js.  Coordinates are the grid      *)
(* integers 0..MaxCoord and the same plus 0.69 or 0.71 (first argument);   *)
(* the centre is an integer near the middle; the size is 0..MaxSize.       *)
(***************************************************************************)
Fractions == {0, 690, 710}

CoordsI == {Num(n) + f : n \in 0..MaxCoord, f \in Fractions}

CoordsJ == {Num(n) : n \in 0..MaxCoord}

Centers == {Num(n) : n \in ((MaxCoord \div 2) - 1)..(MaxCoord \div 2)}

Sizes == {Num(n) : n \in 0..MaxSize}

ShapeTypes == {"cube", "sphere", "triangle"}

\* the z argument and the frontGrid entry handed to classifyPoint
ZArgs == {Num(-400), Num(-200)}

FrontGrids == {[pull |-> 0], [pull |-> Num(200)]}

Labels == {"shape-shell", "inside-shape", "cloth"}

NoConfig == [gridDensity |-> 0]

\* localStorage.getItem returns null: nothing has been saved
NoItem == [item |-> "null"]

\* no UI event has been handled
NoPrevious == [config |-> NoConfig]

\* the UI of script3d.js before any event; the page's markup is not part of
\* the sources: the point sliders are taken to start with the max that
\* matches the default gridDensity
UiIdle ==
    /\ pointSliderMax = 20
    /\ events = 0
    /\ previous = NoPrevious

\* script.js, cube-grid.js, grid-drape.js and part_010 before they have run
NoFrontGrid == [made |-> FALSE, pull |-> 0, nan |-> FALSE]

NoDivisions == [ran |-> {}, divisors |-> {}]

NoCloth == [pass |-> "none", iter |-> 0, config |-> NoConfig,
            idealHeights |-> <<>>, heights |-> <<>>]

NoDrape == [pass |-> "none", iter |-> 0, config |-> NoConfig,
            collisionZ |-> <<>>, currentZ |-> <<>>]

NoLines == [built |-> FALSE, cubeFace |-> <<>>, stretched |-> <<>>]

OthersIdle ==
    /\ frontGridPoint = NoFrontGrid
    /\ divisions = NoDivisions
    /\ cloth = NoCloth
    /\ drape = NoDrape
    /\ frontGridGroup = NoLines

\* the groups before updateVisualization has run: all empty
NoGeometry ==
    [built |-> FALSE, frontPoints |-> <<>>, numSlices |-> 0, positions |-> <<>>,
     horizontalLinesBack |-> <<>>, verticalLinesBack |-> <<>>,
     horizontalLinesFront |-> <<>>, verticalLinesFront |-> <<>>,
     zConnections |-> <<>>, sliceLines |-> <<>>]

InitClassify ==
    /\ call \in [i : CoordsI, j : CoordsJ,
                 config : [shapeType : ShapeTypes, cubeSize : Sizes,
                           selectedPointX : Centers, selectedPointY : Centers]]
    /\ ret = [called |-> {}, inside |-> FALSE, onShell |-> FALSE,
              first |-> NoRet, cls |-> NoRet]
    /\ config = NoConfig
    /\ point = <<0, 0>>
    /\ frontPoint = [made |-> FALSE, z |-> 0, pull |-> 0, class |-> NoRet]
    /\ localStorage = NoItem
    /\ geometry = NoGeometry
    /\ UiIdle
    /\ OthersIdle

CallIsInsideShape ==
    /\ "isInsideShape" \notin ret.called
    /\ ret' = [ret EXCEPT !.called = @ \cup {"isInsideShape"}, !.inside =
                 isInsideShape(call.i, call.j, call.config.shapeType,
                               call.config.cubeSize, call.config.selectedPointX,
                               call.config.selectedPointY)]
    /\ UNCHANGED <<call, config, point, frontPoint, localStorage, geometry, uiVars, otherVars>>

CallIsOnShapeShell ==
    /\ "isOnShapeShell" \notin ret.called
    /\ ret' = [ret EXCEPT !.called = @ \cup {"isOnShapeShell"}, !.onShell =
                 isOnShapeShell(call.i, call.j, call.config.shapeType,
                                call.config.cubeSize, call.config.selectedPointX,
                                call.config.selectedPointY)]
    /\ UNCHANGED <<call, config, point, frontPoint, localStorage, geometry, uiVars, otherVars>>

\* classifyPoint may be called again with another z and another frontGrid:
\* ret.first keeps the first answer, ret.cls the latest
CallClassifyPoint ==
    \E z \in ZArgs, frontGrid \in FrontGrids :
        LET r == classifyPoint(call.i, call.j, z, frontGrid, call.config)
        IN  /\ ret' = [ret EXCEPT !.called = @ \cup {"classifyPoint"},
                                  !.first = IF @ = NoRet THEN r ELSE @,
                                  !.cls = r]
            /\ UNCHANGED <<call, config, point, frontPoint, localStorage, geometry, uiVars, otherVars>>

NextClassify == CallIsInsideShape \/ CallIsOnShapeShell \/ CallClassifyPoint

SpecClassify == InitClassify /\ [][NextClassify]_vars


(***************************************************************************)
(* Properties of classification.js (checked under SpecClassify).           *)
(* The geometry is restated here on the call's arguments, without the      *)
(* functions of the code.                                                  *)
(***************************************************************************)
Called(f) == f \in ret.called

dxC == call.i - call.config.selectedPointX

dyC == call.j - call.config.selectedPointY

\* size - 1
kC == call.config.cubeSize - Scale

\* the squared Euclidean distance to the centre
d2C == dxC * dxC + dyC * dyC

shapeC == call.config.shapeType

IntegerArgs == call.i % Scale = 0

\* Chebyshev distance <= size - 1, = size - 1, < size - 1
InSquare == dxC \in (-kC)..kC /\ dyC \in (-kC)..kC

OnSquareRing == InSquare /\ (dxC \in {-kC, kC} \/ dyC \in {-kC, kC})

StrictlyInSquare == -kC < dxC /\ dxC < kC /\ -kC < dyC /\ dyC < kC

\* Euclidean distance <= size - 1, < size - 1
InDisc == kC >= 0 /\ d2C <= kC * kC

StrictlyInDisc == kC > 0 /\ d2C < kC * kC

\* | Euclidean distance - (size - 1) | <= 0.7, with 0.7^2 = 0.49
InBand ==
    /\ kC + 700 >= 0
    /\ d2C <= kC * kC + 1400 * kC + 490000
    /\ (kC <= 700 \/ d2C >= kC * kC - 1400 * kC + 490000)

\* Euclidean distance < size - 1 - 0.7
BelowBand == kC > 700 /\ d2C < kC * kC - 1400 * kC + 490000

C2_CubeShellIsChebyshevRing ==
    (Called("isOnShapeShell") /\ shapeC = "cube" /\ IntegerArgs) =>
        /\ ret.onShell <=> OnSquareRing
        /\ (kC >= 0 /\ Abs(dxC) = kC /\ dyC = 0) => ret.onShell
        /\ (kC >= 0 /\ Abs(dxC) = kC /\ Abs(dyC) = kC) => ret.onShell
        /\ (kC > 0 /\ dxC = 0 /\ dyC = 0) => ~ret.onShell
        /\ (dxC > kC \/ dyC > kC \/ -dxC > kC \/ -dyC > kC) => ~ret.onShell

C2_Witness ==
    /\ Called("isOnShapeShell") /\ shapeC = "cube" /\ IntegerArgs
    /\ kC >= Num(2) /\ Abs(dxC) = kC /\ Abs(dyC) = kC
    /\ ret.onShell

C4_InsideIsDistanceLeq ==
    (Called("isInsideShape") /\ shapeC \in {"cube", "sphere"}) =>
        /\ shapeC = "cube" => (ret.inside <=> InSquare)
        /\ shapeC = "sphere" => (ret.inside <=> InDisc)
        /\ (shapeC = "cube" /\ OnSquareRing) => ret.inside

C4_Witness ==
    /\ Called("isInsideShape") /\ shapeC = "sphere" /\ IntegerArgs
    /\ kC >= Num(1) /\ d2C = kC * kC
    /\ ret.inside

\* C5 as stated: isOnShapeShell(p) implies not isInsideShape(p).
C5_ShellImpliesNotInside ==
    (Called("isOnShapeShell") /\ Called("isInsideShape")) =>
        (ret.onShell => ~ret.inside)

\* C5 as amended: Shell and Interior are disjoint as labels, not as
\* predicates: a point for which isOnShapeShell holds is never classified
\* 'inside-shape', while isInsideShape holds too for every cube shell point.
C5_ShellNeverLabelledInterior ==
    (Called("isOnShapeShell") /\ Called("isInsideShape") /\ Called("classifyPoint")) =>
        /\ ret.onShell => ret.cls # "inside-shape"
        /\ (shapeC = "cube" /\ ret.onShell) => ret.inside

C5_Witness ==
    /\ Called("isOnShapeShell") /\ Called("isInsideShape") /\ Called("classifyPoint")
    /\ shapeC = "cube" /\ IntegerArgs
    /\ ret.onShell /\ ret.inside /\ ret.cls = "shape-shell"

C20_UnitShapeIsItsCentre ==
    (/\ Called("classifyPoint") /\ shapeC \in {"cube", "sphere"}
     /\ IntegerArgs /\ call.config.cubeSize = Num(1)) =>
        /\ ret.cls = "shape-shell" <=> (dxC = 0 /\ dyC = 0)
        /\ ret.cls # "inside-shape"

\* a direct neighbour of the centre of a sphere of size 1: Cloth
C20_Witness ==
    /\ Called("classifyPoint") /\ shapeC = "sphere" /\ IntegerArgs
    /\ call.config.cubeSize = Num(1)
    /\ Abs(dxC) = Num(1) /\ dyC = 0
    /\ ret.cls = "cloth"


(***************************************************************************)
(* script3d.js: the shape functions, the classification and the            *)
(* displacement, all reading the global config.  Grid indices and the      *)
(* config fields set by parseInt are plain integers; displacements (pull,  *)
(* z) are in Scale units.                                                  *)
(***************************************************************************)
script3d_isInsideCube(cfg, i, j, cubeSize) ==
    LET dx == Abs(i - cfg.selectedPointX)
        dy == Abs(j - cfg.selectedPointY)
        gridDistance == Max(dx, dy)
    IN  gridDistance <= cubeSize - 1

script3d_isOnCubeEdge(cfg, i, j, cubeSize) ==
    LET dx == Abs(i - cfg.selectedPointX)
        dy == Abs(j - cfg.selectedPointY)
        maxDist == Max(dx, dy)
    IN  maxDist = cubeSize - 1

script3d_isInsideSphere(cfg, i, j, sphereRadius) ==
    LET dx == i - cfg.selectedPointX
        dy == j - cfg.selectedPointY
        distance2 == dx * dx + dy * dy
    IN  SqrtLeq(distance2, sphereRadius - 1)

\* Math.abs(distance - (sphereRadius - 1)) <= 0.7, in Scale units
script3d_isOnSphereSurface(cfg, i, j, sphereRadius) ==
    LET dx == Num(i - cfg.selectedPointX)
        dy == Num(j - cfg.selectedPointY)
        distance2 == dx * dx + dy * dy
    IN  /\ SqrtLeq(distance2, Num(sphereRadius - 1) + SurfaceTol)
        /\ SqrtGeq(distance2, Num(sphereRadius - 1) - SurfaceTol)

script3d_isInsideShape(cfg, i, j, shapeType, size) ==
    IF shapeType = "cube" THEN script3d_isInsideCube(cfg, i, j, size)
    ELSE IF shapeType = "sphere" THEN script3d_isInsideSphere(cfg, i, j, size)
    ELSE FALSE

script3d_isOnShapeShell(cfg, i, j, shapeType, size) ==
    IF shapeType = "cube" THEN script3d_isOnCubeEdge(cfg, i, j, size)
    ELSE IF shapeType = "sphere" THEN script3d_isOnSphereSurface(cfg, i, j, size)
    ELSE FALSE

\* frontPoints is given by its entry [i][j]; z, frontPoints and backZ are
\* accepted and do not decide the result
classifyGridPoint(cfg, i, j, z, frontPoints, backZ_) ==
    LET isInShape == script3d_isInsideShape(cfg, i, j, cfg.shapeType, cfg.cubeSize)
        isOnShell == script3d_isOnShapeShell(cfg, i, j, cfg.shapeType, cfg.cubeSize)
    IN  IF isOnShell THEN "shape-shell"
        ELSE IF isInShape THEN "inside-shape"
        ELSE "cloth"

\* gridDistance of calculateZPull, kept as its square: the Chebyshev
\* distance for the cube, the Euclidean distance for every other shapeType
gridDistance2(cfg, i, j) ==
    LET dx == i - cfg.selectedPointX
        dy == j - cfg.selectedPointY
    IN  IF cfg.shapeType = "cube"
        THEN Max(Abs(dx), Abs(dy)) * Max(Abs(dx), Abs(dy))
        ELSE dx * dx + dy * dy

\* slip: an influence distance of at least one grid unit
influenceDistance_AtLeastOne(cfg) == Max(100, cfg.gridDensity * cfg.influenceRadius)

\* config.gridDensity * (config.influenceRadius / 100), in hundredths
influenceDistance(cfg) == cfg.gridDensity * cfg.influenceRadius

\* slip: the cosine subtracted, so that the falloff rises with the distance
falloff_Inverted(normalizedDist) == (Scale - CosPi(normalizedDist)) \div 2

\* slip: the halving forgotten
falloff_NoHalf(normalizedDist) == CosPi(normalizedDist) + Scale

\* (Math.cos(normalizedDist * Math.PI) + 1) / 2, in Scale units
falloff(normalizedDist) == (CosPi(normalizedDist) + Scale) \div 2

\* slip: the shell itself left out of the full displacement (< for <=)
calculateZPull_Strict(cfg, i, j) ==
    LET shapeRadius == cfg.cubeSize
    IN  IF SqrtLt(gridDistance2(cfg, i, j), shapeRadius - 1)
        THEN Num(cfg.zSeparation)
        ELSE IF /\ influenceDistance(cfg) > 0
                /\ SqrtLeq(10000 * gridDistance2(cfg, i, j),
                           100 * (shapeRadius - 1) + influenceDistance(cfg))
        THEN LET distanceFromShape ==
                     SqrtFloor(gridDistance2(cfg, i, j) * Scale * Scale) - Num(shapeRadius - 1)
                 normalizedDist == (distanceFromShape * Scale) \div (influenceDistance(cfg) * 10)
             IN  cfg.zSeparation * falloff(normalizedDist)
        ELSE 0

\* the displacement of grid point (i, j), in Scale units
calculateZPull(cfg, i, j) ==
    LET shapeRadius == cfg.cubeSize
    IN  IF SqrtLeq(gridDistance2(cfg, i, j), shapeRadius - 1)
        THEN Num(cfg.zSeparation)
        ELSE IF /\ influenceDistance(cfg) > 0
                /\ SqrtLeq(10000 * gridDistance2(cfg, i, j),
                           100 * (shapeRadius - 1) + influenceDistance(cfg))
        THEN LET distanceFromShape ==
                     SqrtFloor(gridDistance2(cfg, i, j) * Scale * Scale) - Num(shapeRadius - 1)
                 normalizedDist == (distanceFromShape * Scale) \div (influenceDistance(cfg) * 10)
             IN  cfg.zSeparation * falloff(normalizedDist)
        ELSE 0

\* what calculateZPull divides by on its way: influenceDistance in the
\* falloff branch (normalizedDist = distanceFromShape / influenceDistance),
\* nothing in the other two; in hundredths, as influenceDistance
calculateZPullDivisors(cfg, i, j) ==
    LET shapeRadius == cfg.cubeSize
    IN  IF SqrtLeq(gridDistance2(cfg, i, j), shapeRadius - 1)
        THEN {}
        ELSE IF /\ influenceDistance(cfg) > 0
                /\ SqrtLeq(10000 * gridDistance2(cfg, i, j),
                           100 * (shapeRadius - 1) + influenceDistance(cfg))
        THEN {influenceDistance(cfg)}
        ELSE {}

\* the record of divisions after function f has run and divided by ds
Divided(f, ds) ==
    [ran |-> divisions.ran \cup {f}, divisors |-> divisions.divisors \cup ds]

backZ == Num(-400)

(***************************************************************************)
(* One grid point of updateVisualization: its front point is               *)
(* built from calculateZPull and then classified.                          *)
(***************************************************************************)
Densities == (MaxDensity - 1)..MaxDensity

ZSeparations == {-200, 0, 30, 200}

InfluenceRadii == {0, 40, 100}

NoCall == [i |-> 0]

InitPull ==
    /\ config \in [gridDensity : Densities,
                   selectedPointX : 0..MaxDensity, selectedPointY : 0..MaxDensity,
                   zSeparation : ZSeparations, cubeSize : 1..MaxCubeSize,
                   influenceRadius : InfluenceRadii, shapeType : {"cube", "sphere"}]
    /\ config.selectedPointX <= config.gridDensity
    /\ config.selectedPointY <= config.gridDensity
    /\ point \in (0..MaxDensity) \X (0..MaxDensity)
    /\ point[1] <= config.gridDensity /\ point[2] <= config.gridDensity
    /\ frontPoint = [made |-> FALSE, z |-> 0, pull |-> 0, class |-> NoRet]
    /\ call = NoCall
    /\ ret = NoRet
    /\ localStorage = NoItem
    /\ geometry = NoGeometry
    /\ UiIdle
    /\ OthersIdle

\* frontPoints[i][j] = { x, y, z: backZ + zPull, pull: zPull }
BuildFrontPoint ==
    /\ ~frontPoint.made
    /\ LET zPull == calculateZPull(config, point[1], point[2])
       IN  frontPoint' = [made |-> TRUE, z |-> backZ + zPull, pull |-> zPull,
                          class |-> NoRet]
    /\ divisions' = Divided("calculateZPull",
                            calculateZPullDivisors(config, point[1], point[2]))
    /\ UNCHANGED <<call, ret, config, point, localStorage, geometry, uiVars,
                   frontGridPoint, cloth, drape, frontGridGroup>>

ClassifyGridPoint ==
    /\ frontPoint.made
    /\ frontPoint.class = NoRet
    /\ frontPoint' = [frontPoint EXCEPT !.class =
           classifyGridPoint(config, point[1], point[2], frontPoint.z, frontPoint, backZ)]
    /\ UNCHANGED <<call, ret, config, point, localStorage, geometry, uiVars, otherVars>>

NextPull == BuildFrontPoint \/ ClassifyGridPoint

SpecPull == InitPull /\ [][NextPull]_vars


(***************************************************************************)
(* Properties of calculateZPull and classifyGridPoint (checked under       *)
(* SpecPull).  The geometry is restated on the point and the config,       *)
(* without the functions of the code.                                      *)
(***************************************************************************)
dxP == point[1] - config.selectedPointX

dyP == point[2] - config.selectedPointY

\* size - 1
kP == config.cubeSize - 1

\* distance from the centre <= size - 1: Chebyshev (cube), Euclidean (sphere)
WithinShape ==
    IF config.shapeType = "cube"
    THEN dxP \in (-kP)..kP /\ dyP \in (-kP)..kP
    ELSE dxP * dxP + dyP * dyP <= kP * kP

\* C7: every point whose distance from the centre is <= size - 1 gets exactly
\* zSeparation from calculateZPull, whatever influenceRadius and gridDensity.
C7_FullDisplacementWithinShape ==
    (frontPoint.made /\ WithinShape) => frontPoint.pull = Num(config.zSeparation)

C7_Witness ==
    /\ frontPoint.made /\ config.shapeType = "sphere"
    /\ kP >= 1 /\ dxP * dxP + dyP * dyP = kP * kP
    /\ config.zSeparation # 0 /\ config.influenceRadius = 0
    /\ frontPoint.pull = Num(config.zSeparation)

\* C8: every point classified on the shape shell has Z displacement equal to
\* zSeparation, for cube and sphere and every influenceRadius.
C8_ShellHasFullDisplacement ==
    (frontPoint.made /\ frontPoint.class = "shape-shell") =>
        frontPoint.pull = Num(config.zSeparation)

\* C9: with influenceRadius = 0 calculateZPull returns zSeparation for every
\* point at distance <= size - 1 and exactly 0 for every other point.
C9_SharpCutoffWithoutInfluence ==
    (frontPoint.made /\ config.influenceRadius = 0) =>
        frontPoint.pull = (IF WithinShape THEN Num(config.zSeparation) ELSE 0)

C9_Witness ==
    /\ frontPoint.made /\ config.influenceRadius = 0
    /\ config.zSeparation # 0 /\ ~WithinShape
    /\ Abs(dxP) = kP + 1 /\ dyP = 0
    /\ frontPoint.pull = 0

\* C10 as stated: the displacement lies in [0, |zSeparation|] for every
\* configuration, zSeparation of either sign.
C10_PullInZeroToAbsZ ==
    frontPoint.made =>
        (0 <= frontPoint.pull /\ frontPoint.pull <= Abs(Num(config.zSeparation)))

\* C10 as amended: the magnitude of the displacement lies in
\* [0, |zSeparation|] and the displacement is 0 or has the sign of
\* zSeparation: it lies between 0 and zSeparation.
C10_PullBetweenZeroAndZ ==
    frontPoint.made =>
        /\ Abs(frontPoint.pull) <= Abs(Num(config.zSeparation))
        /\ config.zSeparation >= 0 => frontPoint.pull >= 0
        /\ config.zSeparation <= 0 => frontPoint.pull <= 0

C10_Witness ==
    /\ frontPoint.made /\ config.zSeparation < 0 /\ ~WithinShape
    /\ frontPoint.pull < 0 /\ frontPoint.pull > Num(config.zSeparation)


(***************************************************************************)
(* script3d.js: loadConfig, init and updateVisualization.                  *)
(*                                                                         *)
(* The opacities and pointSize are only handed on, never computed with:    *)
(* they are kept as the decimal literals of the source.  A point           *)
(* { x, y, z } is kept as [i, j, z]: x and y are (i - gridDensity / 2) *   *)
(* spacing and (j - gridDensity / 2) * spacing, one value per grid index.  *)
(***************************************************************************)
undefined == "undefined"

\* obj.f of a JavaScript object: undefined for a property it does not have
Get(obj, f) == IF f \in DOMAIN obj THEN obj[f] ELSE undefined

defaults ==
    [gridDensity |-> 20, selectedPointX |-> 10, selectedPointY |-> 10,
     zSeparation |-> 200, cubeSize |-> 5, influenceRadius |-> 60,
     clothAlpha |-> "0.5", shapeShellAlpha |-> "0.8", insideShapeAlpha |-> "0.6",
     shapeType |-> "cube", renderMode |-> "lines", pointSize |-> "3.0"]

\* { ...defaults, ...JSON.parse(saved) }, or defaults when nothing is saved
loadConfig(saved) ==
    IF saved = NoItem THEN defaults
    ELSE [f \in DOMAIN defaults \cup DOMAIN saved |->
              IF f \in DOMAIN saved THEN saved[f] ELSE defaults[f]]

getPointAlpha(cfg, classification) ==
    IF classification = "cloth" THEN cfg.clothAlpha
    ELSE IF classification = "shape-shell" THEN cfg.shapeShellAlpha
    ELSE IF classification = "inside-shape" THEN cfg.insideShapeAlpha
    ELSE "0.5"

\* spacing = GridExtent / config.gridDensity
GridExtent == 700

\* a sign that forgets the negative side
sign_Positive(x) == IF x = 0 THEN 0 ELSE 1

sign(x) == IF x > 0 THEN 1 ELSE IF x < 0 THEN -1 ELSE 0

\* the pairs (i, j) in the order of the two nested loops
GridOrder(cfg) ==
    LET n == cfg.gridDensity + 1
    IN  [k \in 1..(n * n) |-> <<(k - 1) \div n, (k - 1) % n>>]

\* the concatenation of ss[lo], ..., ss[hi], halving the range
RECURSIVE FlattenRange(_, _, _)
FlattenRange(ss, lo, hi) ==
    IF lo > hi THEN <<>>
    ELSE IF lo = hi THEN ss[lo]
    ELSE LET mid == (lo + hi) \div 2
         IN  FlattenRange(ss, lo, mid) \o FlattenRange(ss, mid + 1, hi)

\* the pushes of a loop, one after the other
Flatten(ss) == FlattenRange(ss, 1, Len(ss))

\* frontPoints[i][j] = { x, y, z: backZ + zPull, pull: zPull }
frontPointsOf(cfg) ==
    [i \in 0..cfg.gridDensity |-> [j \in 0..cfg.gridDensity |->
        LET zPull == calculateZPull(cfg, i, j)
        IN  [z |-> backZ + zPull, pull |-> zPull]]]

\* Math.abs(p.pull) > 0.1
isDisplaced(p) == Abs(p.pull) > Scale \div 10

\* slip: slices also when |zSeparation| equals the spacing (>= for >)
hasSlices_Inclusive(cfg) == Abs(cfg.zSeparation) * cfg.gridDensity >= GridExtent

\* Math.abs(config.zSeparation) > spacing
hasSlices(cfg) == Abs(cfg.zSeparation) * cfg.gridDensity > GridExtent

\* Math.floor(maxZDisplacement / spacing), 0 when no slice is generated
numSlicesOf(cfg) ==
    IF hasSlices(cfg)
    THEN (Abs(cfg.zSeparation) * cfg.gridDensity) \div GridExtent
    ELSE 0

\* backZ + slice * spacing * Math.sign(config.zSeparation), in Scale units
\* (rounded toward backZ where spacing is not a whole number of thousandths)
sliceZOf(cfg, slice) ==
    backZ + sign(cfg.zSeparation)
              * ((slice * GridExtent * Scale) \div cfg.gridDensity)

\* slip: a point whose front Z equals the slice height is kept (<= for <)
isInFootprint_Inclusive(cfg, slice, frontZ) ==
    LET offset == slice * GridExtent * Scale * sign(cfg.zSeparation)
        pulled == (frontZ - backZ) * cfg.gridDensity
    IN  \/ cfg.zSeparation > 0 /\ offset > 0 /\ offset <= pulled
        \/ cfg.zSeparation < 0 /\ offset < 0 /\ offset >= pulled

\* (zSeparation > 0 && sliceZ > backZ && sliceZ < frontZ) ||
\* (zSeparation < 0 && sliceZ < backZ && sliceZ > frontZ), decided exactly:
\* both sides of each comparison are taken relative to backZ and multiplied
\* by gridDensity, so that slice * spacing is the integer slice * GridExtent
\* a footprint that gives up one spacing below the front
isInFootprint_OneShort(cfg, slice, frontZ) ==
    LET offset == (slice + 1) * GridExtent * Scale * sign(cfg.zSeparation)
        pulled == (frontZ - backZ) * cfg.gridDensity
    IN  \/ cfg.zSeparation > 0 /\ offset > 0 /\ offset < pulled
        \/ cfg.zSeparation < 0 /\ offset < 0 /\ offset > pulled

isInFootprint(cfg, slice, frontZ) ==
    LET offset == slice * GridExtent * Scale * sign(cfg.zSeparation)
        pulled == (frontZ - backZ) * cfg.gridDensity
    IN  \/ cfg.zSeparation > 0 /\ offset > 0 /\ offset < pulled
        \/ cfg.zSeparation < 0 /\ offset < 0 /\ offset > pulled

\* slip: the neighbour's footprint not looked at
isInFootprint2_Unchecked(cfg, slice, frontZ2) == TRUE

\* isInFootprint2: the same test on the neighbour's front Z
isInFootprint2(cfg, slice, frontZ2) == isInFootprint(cfg, slice, frontZ2)

Pt(i, j, z) == [i |-> i, j |-> j, z |-> z]

Segment(p1, p2, alpha1, alpha2) ==
    [p1 |-> p1, p2 |-> p2, alpha1 |-> alpha1, alpha2 |-> alpha2]

\* the points-only mode: positions and alphas, one entry per point pushed
positionsOf(cfg, frontPoints) ==
    LET back == [k \in 1..Len(GridOrder(cfg)) |->
                    [layer |-> "back", i |-> GridOrder(cfg)[k][1], j |-> GridOrder(cfg)[k][2],
                     z |-> backZ, alpha |-> cfg.clothAlpha]]
        shown == SelectSeq(GridOrder(cfg), LAMBDA q : isDisplaced(frontPoints[q[1]][q[2]]))
        front == [k \in 1..Len(shown) |->
                    LET i == shown[k][1]
                        j == shown[k][2]
                        p == frontPoints[i][j]
                    IN  [layer |-> "front", i |-> i, j |-> j, z |-> p.z,
                         alpha |-> getPointAlpha(cfg,
                             classifyGridPoint(cfg, i, j, p.z, frontPoints, backZ))]]
        slicePoints(slice) ==
            LET in == SelectSeq(GridOrder(cfg),
                          LAMBDA q : isInFootprint(cfg, slice, frontPoints[q[1]][q[2]].z))
            IN  [k \in 1..Len(in) |->
                    [layer |-> "slice", i |-> in[k][1], j |-> in[k][2],
                     z |-> sliceZOf(cfg, slice),
                     alpha |-> getPointAlpha(cfg, classifyGridPoint(cfg,
                         in[k][1], in[k][2], sliceZOf(cfg, slice), frontPoints, backZ))]]
    IN  back \o front \o Flatten([slice \in 1..numSlicesOf(cfg) |-> slicePoints(slice)])

\* the horizontal back lines without those of the last row
horizontalLinesBackOf_ShortRow(cfg) ==
    LET from == SelectSeq(GridOrder(cfg),
                    LAMBDA q : q[1] < cfg.gridDensity /\ q[2] < cfg.gridDensity)
    IN  [k \in 1..Len(from) |->
            Segment(Pt(from[k][1], from[k][2], backZ),
                    Pt(from[k][1] + 1, from[k][2], backZ),
                    Get(cfg, "backGridAlpha"), Get(cfg, "backGridAlpha"))]

horizontalLinesBackOf(cfg) ==
    LET from == SelectSeq(GridOrder(cfg), LAMBDA q : q[1] < cfg.gridDensity)
    IN  [k \in 1..Len(from) |->
            Segment(Pt(from[k][1], from[k][2], backZ),
                    Pt(from[k][1] + 1, from[k][2], backZ),
                    Get(cfg, "backGridAlpha"), Get(cfg, "backGridAlpha"))]

verticalLinesBackOf(cfg) ==
    LET from == SelectSeq(GridOrder(cfg), LAMBDA q : q[2] < cfg.gridDensity)
    IN  [k \in 1..Len(from) |->
            Segment(Pt(from[k][1], from[k][2], backZ),
                    Pt(from[k][1], from[k][2] + 1, backZ),
                    Get(cfg, "backGridAlpha"), Get(cfg, "backGridAlpha"))]

\* a front-layer segment from (i, j) to (i2, j2)
frontSegment(cfg, frontPoints, i, j, i2, j2) ==
    LET p1 == frontPoints[i][j]
        p2 == frontPoints[i2][j2]
        class1 == classifyGridPoint(cfg, i, j, p1.z, frontPoints, backZ)
        class2 == classifyGridPoint(cfg, i2, j2, p2.z, frontPoints, backZ)
    IN  Segment(Pt(i, j, p1.z), Pt(i2, j2, p2.z),
                getPointAlpha(cfg, class1), getPointAlpha(cfg, class2))

horizontalLinesFrontOf(cfg, frontPoints) ==
    LET from == SelectSeq(GridOrder(cfg), LAMBDA q : q[1] < cfg.gridDensity)
    IN  [k \in 1..Len(from) |->
            frontSegment(cfg, frontPoints, from[k][1], from[k][2],
                         from[k][1] + 1, from[k][2])]

verticalLinesFrontOf(cfg, frontPoints) ==
    LET from == SelectSeq(GridOrder(cfg), LAMBDA q : q[2] < cfg.gridDensity)
    IN  [k \in 1..Len(from) |->
            frontSegment(cfg, frontPoints, from[k][1], from[k][2],
                         from[k][1], from[k][2] + 1)]

zConnectionsOf(cfg, frontPoints) ==
    LET shown == SelectSeq(GridOrder(cfg), LAMBDA q : isDisplaced(frontPoints[q[1]][q[2]]))
    IN  [k \in 1..Len(shown) |->
            LET i == shown[k][1]
                j == shown[k][2]
                frontPoint_ == frontPoints[i][j]
                frontClass == classifyGridPoint(cfg, i, j, frontPoint_.z, frontPoints, backZ)
            IN  Segment(Pt(i, j, backZ), Pt(i, j, frontPoint_.z),
                        Get(cfg, "backGridAlpha"), getPointAlpha(cfg, frontClass))]

\* a slice segment from (i, j) to (i2, j2) at the height of the slice
sliceSegment(cfg, frontPoints, slice, i, j, i2, j2) ==
    LET class1 == classifyGridPoint(cfg, i, j, sliceZOf(cfg, slice), frontPoints, backZ)
        class2 == classifyGridPoint(cfg, i2, j2, sliceZOf(cfg, slice), frontPoints, backZ)
    IN  Segment(Pt(i, j, sliceZOf(cfg, slice)), Pt(i2, j2, sliceZOf(cfg, slice)),
                getPointAlpha(cfg, class1), getPointAlpha(cfg, class2))

sliceLinesOf(cfg, frontPoints) ==
    LET at(slice, i, j) ==
            (IF /\ i < cfg.gridDensity
                /\ isInFootprint2(cfg, slice, frontPoints[i + 1][j].z)
             THEN <<sliceSegment(cfg, frontPoints, slice, i, j, i + 1, j)>> ELSE <<>>)
            \o
            (IF /\ j < cfg.gridDensity
                /\ isInFootprint2(cfg, slice, frontPoints[i][j + 1].z)
             THEN <<sliceSegment(cfg, frontPoints, slice, i, j, i, j + 1)>> ELSE <<>>)
        ofSlice(slice) ==
            LET in == SelectSeq(GridOrder(cfg),
                          LAMBDA q : isInFootprint(cfg, slice, frontPoints[q[1]][q[2]].z))
            IN  Flatten([k \in 1..Len(in) |-> at(slice, in[k][1], in[k][2])])
    IN  Flatten([slice \in 1..numSlicesOf(cfg) |-> ofSlice(slice)])

\* what one run of updateVisualization leaves in the groups
updateVisualization(cfg) ==
    LET frontPoints == frontPointsOf(cfg)
    IN  IF cfg.renderMode = "points"
        THEN [NoGeometry EXCEPT !.built = TRUE, !.frontPoints = frontPoints,
                                !.numSlices = numSlicesOf(cfg),
                                !.positions = positionsOf(cfg, frontPoints)]
        ELSE [built |-> TRUE, frontPoints |-> frontPoints,
              numSlices |-> numSlicesOf(cfg), positions |-> <<>>,
              horizontalLinesBack |-> horizontalLinesBackOf(cfg),
              verticalLinesBack |-> verticalLinesBackOf(cfg),
              horizontalLinesFront |-> horizontalLinesFrontOf(cfg, frontPoints),
              verticalLinesFront |-> verticalLinesFrontOf(cfg, frontPoints),
              zConnections |-> zConnectionsOf(cfg, frontPoints),
              sliceLines |-> sliceLinesOf(cfg, frontPoints)]

(***************************************************************************)
(* The page: config is loaded from localStorage when the script starts,    *)
(* and init() draws the first visualisation.                               *)
(***************************************************************************)
SliceSeparations == {-280, 0, 140, 200, 350}

RenderModes == {"lines", "points"}

\* the selected points saved: a corner, the middle, the opposite corner
SavedPoints == {0, MaxDensity \div 2, MaxDensity}

\* what an earlier visit may have saved; the variant of the script that
\* shares the storage key also saves a backGridAlpha
SavedConfigs ==
    LET base == {c \in [gridDensity : Densities,
                        selectedPointX : SavedPoints, selectedPointY : SavedPoints,
                        zSeparation : SliceSeparations, cubeSize : 1..MaxCubeSize,
                        influenceRadius : InfluenceRadii,
                        shapeType : {"cube", "sphere"}, renderMode : RenderModes] :
                    /\ c.selectedPointX <= c.gridDensity
                    /\ c.selectedPointY <= c.gridDensity}
    IN  base \cup {[f \in DOMAIN c \cup {"backGridAlpha"} |->
                        IF f = "backGridAlpha" THEN "0.3" ELSE c[f]] : c \in base}

Init ==
    /\ localStorage \in {NoItem} \cup SavedConfigs
    /\ config = loadConfig(localStorage)
    /\ geometry = NoGeometry
    /\ UiIdle
    /\ OthersIdle
    /\ call = NoCall
    /\ ret = NoRet
    /\ point = <<0, 0>>
    /\ frontPoint = [made |-> FALSE, z |-> 0, pull |-> 0, class |-> NoRet]

init ==
    /\ ~geometry.built
    /\ geometry' = updateVisualization(config)
    /\ UNCHANGED <<call, ret, config, point, frontPoint, localStorage, uiVars, otherVars>>

Next == init

Spec == Init /\ [][Next]_vars


(***************************************************************************)
(* Properties of the geometry built by updateVisualization (checked under  *)
(* Spec).  Distances, classes and slice heights are restated on the grid   *)
(* indices and the config, without the functions of the code.              *)
(***************************************************************************)
GridPoints == (0..config.gridDensity) \X (0..config.gridDensity)

\* size - 1
kG == config.cubeSize - 1

\* the square of the distance of p from the centre: Chebyshev for the cube,
\* Euclidean for the sphere
dist2G(p) ==
    LET dx == p[1] - config.selectedPointX
        dy == p[2] - config.selectedPointY
    IN  IF config.shapeType = "cube"
        THEN (IF Abs(dx) >= Abs(dy) THEN dx * dx ELSE dy * dy)
        ELSE dx * dx + dy * dy

pullG(p) == geometry.frontPoints[p[1]][p[2]].pull

\* distance > size - 1 + influenceDistance, with influenceDistance =
\* gridDensity * influenceRadius / 100
BeyondInfluence(p) ==
    10000 * dist2G(p) > (100 * kG + config.gridDensity * config.influenceRadius)
                        * (100 * kG + config.gridDensity * config.influenceRadius)

\* C11: beyond the shell the magnitude of the displacement is monotonically
\* non-increasing in the distance from the centre (size - 1 < d1 <= d2
\* implies |pull(p1)| >= |pull(p2)|), and the displacement is exactly 0 for
\* every point whose distance exceeds size - 1 + influenceDistance.
C11_PullFallsOffBeyondShell ==
    geometry.built =>
        \A p1 \in GridPoints :
            /\ BeyondInfluence(p1) => pullG(p1) = 0
            /\ \A p2 \in GridPoints :
                   (kG * kG < dist2G(p1) /\ dist2G(p1) <= dist2G(p2))
                       => Abs(pullG(p1)) >= Abs(pullG(p2))

C11_Witness ==
    /\ geometry.built
    /\ \E p3 \in GridPoints : BeyondInfluence(p3) /\ pullG(p3) = 0
    /\ \E p1 \in GridPoints :
           /\ kG * kG < dist2G(p1) /\ pullG(p1) # 0
           /\ \E p2 \in GridPoints :
                  /\ dist2G(p1) < dist2G(p2)
                  /\ Abs(pullG(p1)) > Abs(pullG(p2)) /\ Abs(pullG(p2)) > 0

\* the three classes, restated: Shell is Chebyshev distance = size - 1 (cube)
\* or |Euclidean distance - (size - 1)| <= 0.7 (sphere); Interior is distance
\* <= size - 1 and not Shell; Cloth is everything else
ShellG(p) ==
    IF config.shapeType = "cube"
    THEN dist2G(p) = kG * kG
    ELSE /\ Scale * Scale * dist2G(p) <= (Num(kG) + 700) * (Num(kG) + 700)
         /\ \/ Num(kG) <= 700
            \/ Scale * Scale * dist2G(p) >= (Num(kG) - 700) * (Num(kG) - 700)

classG(p) ==
    IF ShellG(p) THEN "shape-shell"
    ELSE IF dist2G(p) <= kG * kG THEN "inside-shape"
    ELSE "cloth"

LinesBuilt == geometry.built /\ config.renderMode = "lines"

\* the segments of the front layer, horizontal then vertical
frontLines == geometry.horizontalLinesFront \o geometry.verticalLinesFront

\* the grid indices of an endpoint
At(p) == <<p.i, p.j>>

\* C12: after updateVisualization in lines mode, no segment of the front
\* layer (horizontalLinesFront, verticalLinesFront) has an endpoint that is
\* classified Interior.
C12_NoFrontSegmentAtInterior ==
    LinesBuilt =>
        \A n \in 1..Len(frontLines) :
            /\ classG(At(frontLines[n].p1)) # "inside-shape"
            /\ classG(At(frontLines[n].p2)) # "inside-shape"

\* C13: no Z connector is emitted for a point classified Interior.
C13_NoConnectorAtInterior ==
    LinesBuilt =>
        \A n \in 1..Len(geometry.zConnections) :
            classG(At(geometry.zConnections[n].p2)) # "inside-shape"

\* Shell, or Cloth with |pull| > 0.1
VisibleG(p) ==
    \/ classG(p) = "shape-shell"
    \/ classG(p) = "cloth" /\ 10 * Abs(pullG(p)) > Scale

\* C14: every emitted front-layer segment has at least one endpoint that is
\* Shell or Cloth with |pull| > 0.1: none is emitted between two adjacent
\* points that are both outside the shape and both without visible
\* displacement.
C14_FrontSegmentHasVisibleEnd ==
    LinesBuilt =>
        \A n \in 1..Len(frontLines) :
            VisibleG(At(frontLines[n].p1)) \/ VisibleG(At(frontLines[n].p2))

\* C15: every point classified Shell has a Z connector, for every
\* configuration.
C15_ShellHasConnector ==
    LinesBuilt =>
        \A p \in GridPoints :
            classG(p) = "shape-shell" =>
                \E n \in 1..Len(geometry.zConnections) :
                    At(geometry.zConnections[n].p2) = p

PointsBuilt == geometry.built /\ config.renderMode = "points"

frontZG(p) == geometry.frontPoints[p[1]][p[2]].z

\* the height of slice s above backZ, times gridDensity: s * 700 toward the
\* side zSeparation points to (spacing = 700 / gridDensity)
sliceOffsetG(s) ==
    IF config.zSeparation >= 0 THEN s * 700 * Scale ELSE 0 - s * 700 * Scale

\* the height of slice s lies strictly between backZ and the front Z of p
StrictlyBetweenG(s, p) ==
    LET front == (frontZG(p) - Num(-400)) * config.gridDensity
    IN  \/ 0 < sliceOffsetG(s) /\ sliceOffsetG(s) < front
        \/ front < sliceOffsetG(s) /\ sliceOffsetG(s) < 0

\* the stored height of slice s, in Scale units
sliceHeightG(s) ==
    IF config.zSeparation >= 0
    THEN Num(-400) + (s * 700 * Scale) \div config.gridDensity
    ELSE Num(-400) - (s * 700 * Scale) \div config.gridDensity

\* p is among the points pushed for slice s (points mode)
InSlicePoints(s, p) ==
    \E n \in 1..Len(geometry.positions) :
        /\ geometry.positions[n].layer = "slice"
        /\ geometry.positions[n].z = sliceHeightG(s)
        /\ geometry.positions[n].i = p[1] /\ geometry.positions[n].j = p[2]

\* C16: a grid point (i, j) is in the point set of slice s if and only if the
\* height of the slice lies strictly between backZ and the point's front Z
\* (backZ + pull); a point whose front Z equals the slice height, or that is
\* not pulled past it, is excluded.
C16_SlicePointsStrictlyBetween ==
    PointsBuilt =>
        \A s \in 1..geometry.numSlices : \A p \in GridPoints :
            InSlicePoints(s, p) <=> StrictlyBetweenG(s, p)

C16_Witness ==
    /\ PointsBuilt
    /\ \E s \in 1..geometry.numSlices : \E p \in GridPoints : InSlicePoints(s, p)
    /\ \E s \in 1..geometry.numSlices : \E q \in GridPoints :
           /\ pullG(q) # 0 /\ frontZG(q) = sliceHeightG(s)
           /\ ~InSlicePoints(s, q)

\* the two grid points are neighbours along i or along j
AdjacentG(p, q) ==
    \/ p[1] = q[1] /\ Abs(p[2] - q[2]) = 1
    \/ p[2] = q[2] /\ Abs(p[1] - q[1]) = 1

\* C17: every segment of sliceLines connects two grid-adjacent points that
\* both belong to the point set of the slice the segment lies in.
C17_SliceSegmentWithinSlice ==
    LinesBuilt =>
        \A n \in 1..Len(geometry.sliceLines) :
            LET seg == geometry.sliceLines[n]
            IN  /\ AdjacentG(At(seg.p1), At(seg.p2))
                /\ \E s \in 1..geometry.numSlices :
                       /\ seg.p1.z = sliceHeightG(s) /\ seg.p2.z = sliceHeightG(s)
                       /\ StrictlyBetweenG(s, At(seg.p1))
                       /\ StrictlyBetweenG(s, At(seg.p2))

\* a slice with segments, and a point of it whose neighbour along i is not in
\* the slice
C17_Witness ==
    /\ LinesBuilt
    /\ geometry.sliceLines # <<>>
    /\ \E s \in 1..geometry.numSlices : \E p \in GridPoints :
           /\ p[1] < config.gridDensity
           /\ StrictlyBetweenG(s, p)
           /\ ~StrictlyBetweenG(s, <<p[1] + 1, p[2]>>)
           /\ \E n \in 1..Len(geometry.sliceLines) :
                  /\ geometry.sliceLines[n].p1.z = sliceHeightG(s)
                  /\ At(geometry.sliceLines[n].p1) = p

\* the heights of everything emitted for the slices, in either mode
sliceItemHeights ==
    {geometry.positions[n].z :
        n \in {m \in 1..Len(geometry.positions) : geometry.positions[m].layer = "slice"}}
    \cup {geometry.sliceLines[n].p1.z : n \in 1..Len(geometry.sliceLines)}
    \cup {geometry.sliceLines[n].p2.z : n \in 1..Len(geometry.sliceLines)}

\* C18: intermediate slices are generated if and only if |zSeparation| >
\* spacing (spacing = 700 / gridDensity); when generated there are exactly
\* floor(|zSeparation| / spacing) of them, and slice s lies at
\* Z = backZ + s * spacing * sign(zSeparation).
C18_SliceCountAndHeights ==
    geometry.built =>
        LET n == geometry.numSlices
            reach == Abs(config.zSeparation) * config.gridDensity
        IN  /\ n > 0 <=> reach > 700
            /\ n > 0 => (n * 700 <= reach /\ reach < (n + 1) * 700)
            /\ sliceItemHeights \subseteq {sliceHeightG(s) : s \in 1..n}

C18_Witness ==
    /\ geometry.built
    /\ geometry.numSlices = 2 /\ config.zSeparation < 0
    /\ sliceHeightG(1) \in sliceItemHeights
    /\ sliceHeightG(1) < Num(-400)

\* the opacities a slider can configure
Opacities == {"0.0", "0.1", "0.2", "0.3", "0.4", "0.5", "0.6", "0.7", "0.8",
              "0.9", "1.0"}

\* the opacity configured for a class; "back" is an endpoint of the back layer
configuredAlphaG(class) ==
    IF class = "back" THEN Get(config, "backGridAlpha")
    ELSE IF class = "cloth" THEN Get(config, "clothAlpha")
    ELSE IF class = "shape-shell" THEN Get(config, "shapeShellAlpha")
    ELSE Get(config, "insideShapeAlpha")

\* the endpoint carries an opacity, and it is the one configured for class
CarriesG(alpha, class) == alpha \in Opacities /\ alpha = configuredAlphaG(class)

backLines == geometry.horizontalLinesBack \o geometry.verticalLinesBack

classedLines == frontLines \o geometry.sliceLines

\* C19: every segment carries at each endpoint the configured opacity of that
\* endpoint's class: clothAlpha, shapeShellAlpha, insideShapeAlpha, and
\* backGridAlpha for back-layer endpoints; this holds for the configuration
\* loadConfig returns when nothing has been saved.
C19_SegmentsCarryClassOpacity ==
    LinesBuilt =>
        /\ \A n \in 1..Len(backLines) :
               /\ CarriesG(backLines[n].alpha1, "back")
               /\ CarriesG(backLines[n].alpha2, "back")
        /\ \A n \in 1..Len(classedLines) :
               /\ CarriesG(classedLines[n].alpha1, classG(At(classedLines[n].p1)))
               /\ CarriesG(classedLines[n].alpha2, classG(At(classedLines[n].p2)))
        /\ \A n \in 1..Len(geometry.zConnections) :
               /\ CarriesG(geometry.zConnections[n].alpha1, "back")
               /\ CarriesG(geometry.zConnections[n].alpha2,
                           classG(At(geometry.zConnections[n].p2)))


(***************************************************************************)
(* script3d.js: the event listeners.  Each handler changes config, runs    *)
(* updateVisualization and then saveConfig.                                *)
(***************************************************************************)
\* JSON.stringify(config) as stored under 'gridCubeConfig': the own
\* properties of config (integers and decimal literals, which JSON keeps)
saveConfig(cfg) == [f \in DOMAIN cfg |-> cfg[f]]

\* a slider max that follows the density while the selected point stays
updatePointSliderMax_NoClamp(c) == c

\* updatePointSliderMax on config c: the selected point is pulled back onto
\* the grid (the sliders' max is set by the density handler below)
updatePointSliderMax(c) ==
    [c EXCEPT !.selectedPointX = IF @ > c.gridDensity THEN c.gridDensity ELSE @,
              !.selectedPointY = IF @ > c.gridDensity THEN c.gridDensity ELSE @]

\* a tail that saves the config and leaves the scene as it was
handled_NoRebuild(c) ==
    /\ geometry.built
    /\ config' = c
    /\ localStorage' = saveConfig(c)
    /\ UNCHANGED <<call, ret, point, frontPoint, geometry, otherVars>>

\* the tail of every handler, with c the config the handler has set:
\* updateVisualization(); saveConfig();
handled(c) ==
    /\ geometry.built
    /\ config' = c
    /\ geometry' = updateVisualization(c)
    /\ localStorage' = saveConfig(c)
    /\ UNCHANGED <<call, ret, point, frontPoint, otherVars>>

densitySliderInput(value) ==
    /\ handled(updatePointSliderMax([config EXCEPT !.gridDensity = value]))
    /\ pointSliderMax' = value

pointXSliderInput(value) ==
    /\ value \in 0..pointSliderMax
    /\ handled([config EXCEPT !.selectedPointX = value])
    /\ UNCHANGED pointSliderMax

pointYSliderInput(value) ==
    /\ value \in 0..pointSliderMax
    /\ handled([config EXCEPT !.selectedPointY = value])
    /\ UNCHANGED pointSliderMax

zSeparationSliderInput(value) ==
    /\ handled([config EXCEPT !.zSeparation = value])
    /\ UNCHANGED pointSliderMax

cubeSizeSliderInput(value) ==
    /\ handled([config EXCEPT !.cubeSize = value])
    /\ UNCHANGED pointSliderMax

influenceRadiusSliderInput(value) ==
    /\ handled([config EXCEPT !.influenceRadius = value])
    /\ UNCHANGED pointSliderMax

clothAlphaSliderInput(value) ==
    /\ handled([config EXCEPT !.clothAlpha = value])
    /\ UNCHANGED pointSliderMax

shapeShellAlphaSliderInput(value) ==
    /\ handled([config EXCEPT !.shapeShellAlpha = value])
    /\ UNCHANGED pointSliderMax

insideShapeAlphaSliderInput(value) ==
    /\ handled([config EXCEPT !.insideShapeAlpha = value])
    /\ UNCHANGED pointSliderMax

pointSizeSliderInput(value) ==
    /\ handled([config EXCEPT !.pointSize = value])
    /\ UNCHANGED pointSliderMax

shapeTypeBtnClick ==
    /\ handled([config EXCEPT !.shapeType = IF @ = "cube" THEN "sphere" ELSE "cube"])
    /\ UNCHANGED pointSliderMax

renderModeBtnClick ==
    /\ handled([config EXCEPT !.renderMode = IF @ = "lines" THEN "points" ELSE "lines"])
    /\ UNCHANGED pointSliderMax

(***************************************************************************)
(* The page under UI events: a visit that finds a saved config, then at    *)
(* most MaxEvents events.                                                  *)
(***************************************************************************)
MaxEvents == 2

UISavedConfigs ==
    {[gridDensity |-> MaxDensity, selectedPointX |-> MaxDensity \div 2,
      selectedPointY |-> MaxDensity \div 2, zSeparation |-> 280,
      cubeSize |-> 2, influenceRadius |-> 40, shapeType |-> "cube",
      renderMode |-> "lines"],
     [gridDensity |-> MaxDensity - 1, selectedPointX |-> 0,
      selectedPointY |-> MaxDensity - 1, zSeparation |-> -280,
      cubeSize |-> 1, influenceRadius |-> 100, shapeType |-> "sphere",
      renderMode |-> "points"]}

\* the values tried on each slider
UIPoints == {0, MaxDensity}

UIZSeparations == {-280, 280}

UICubeSizes == {1, MaxCubeSize}

UIInfluenceRadii == {0, 100}

InitUI ==
    /\ localStorage \in UISavedConfigs
    /\ config = loadConfig(localStorage)
    /\ geometry = NoGeometry
    /\ UiIdle
    /\ OthersIdle
    /\ call = NoCall
    /\ ret = NoRet
    /\ point = <<0, 0>>
    /\ frontPoint = [made |-> FALSE, z |-> 0, pull |-> 0, class |-> NoRet]

\* one UI event: the counter and the state before the event are recorded
UIEvent ==
    /\ events < MaxEvents
    /\ events' = events + 1
    /\ previous' = [config |-> config, geometry |-> geometry]
    /\ \/ \E value \in Densities : densitySliderInput(value)
       \/ \E value \in UIPoints : pointXSliderInput(value)
       \/ \E value \in UIPoints : pointYSliderInput(value)
       \/ \E value \in UIZSeparations : zSeparationSliderInput(value)
       \/ \E value \in UICubeSizes : cubeSizeSliderInput(value)
       \/ \E value \in UIInfluenceRadii : influenceRadiusSliderInput(value)
       \/ clothAlphaSliderInput("0.3")
       \/ shapeShellAlphaSliderInput("1.0")
       \/ insideShapeAlphaSliderInput("0.0")
       \/ pointSizeSliderInput("5.0")
       \/ shapeTypeBtnClick
       \/ renderModeBtnClick

NextUI == init \/ UIEvent

SpecUI == InitUI /\ [][NextUI]_vars

(***************************************************************************)
(* Claims about the page under UI events.                                  *)
(***************************************************************************)
\* the last event negated zSeparation and changed nothing else
ZNegated ==
    /\ events > 0
    /\ config.zSeparation # 0
    /\ previous.config = [config EXCEPT !.zSeparation = 0 - @]

\* a height, a point and a segment mirrored about the back plane
mirrorZ(z) == 2 * Num(-400) - z

mirrorPt(p) == [p EXCEPT !.z = mirrorZ(@)]

mirrorSeg(s) == [s EXCEPT !.p1 = mirrorPt(@), !.p2 = mirrorPt(@)]

\* C21: negating zSeparation flips the direction of displacement and nothing
\* else: every point's pull is the negative of what it was, every point keeps
\* its classification, the number of slices is the same, and every slice
\* holds the same points and segments as before, at the mirrored height.
C21_NegatedZSeparationMirrors ==
    ZNegated =>
        LET was == previous.geometry
        IN  /\ \A p \in GridPoints :
                /\ pullG(p) = 0 - was.frontPoints[p[1]][p[2]].pull
                /\ classifyGridPoint(config, p[1], p[2], frontZG(p),
                                     geometry.frontPoints, Num(-400))
                     = classifyGridPoint(previous.config, p[1], p[2],
                                         was.frontPoints[p[1]][p[2]].z,
                                         was.frontPoints, Num(-400))
            /\ geometry.numSlices = was.numSlices
            /\ Len(geometry.positions) = Len(was.positions)
            /\ \A n \in 1..Len(geometry.positions) :
                    geometry.positions[n] = mirrorPt(was.positions[n])
            /\ Len(geometry.sliceLines) = Len(was.sliceLines)
            /\ \A n \in 1..Len(geometry.sliceLines) :
                    geometry.sliceLines[n] = mirrorSeg(was.sliceLines[n])

\* zSeparation was negated with a slice drawn and a point in the falloff
C21_Witness ==
    /\ ZNegated
    /\ geometry.numSlices >= 1
    /\ \/ \E n \in 1..Len(geometry.positions) : geometry.positions[n].layer = "slice"
       \/ Len(geometry.sliceLines) > 0
    /\ \E p \in GridPoints :
            /\ pullG(p) # 0
            /\ Abs(pullG(p)) < Num(Abs(config.zSeparation))

\* C22: after any sequence of UI events, whenever a handler has returned the
\* scene is exactly what updateVisualization builds from the current config
\* (nothing of the earlier scene is left), and the config stored under
\* 'gridCubeConfig' equals the config in memory.
C22_HandlersRebuildAndPersist ==
    events > 0 =>
        /\ geometry = updateVisualization(config)
        /\ localStorage = config

\* an event changed the config and the scene, and both were brought up to date
C22_Witness ==
    /\ events = MaxEvents
    /\ config # previous.config
    /\ geometry # previous.geometry
    /\ geometry.built
    /\ localStorage = config

(***************************************************************************)
(* Further claims about the scene drawn by init.                           *)
(***************************************************************************)
\* C23: in lines mode the back layer has exactly N * (N + 1) horizontal and
\* N * (N + 1) vertical segments for grid density N, 2 * N * (N + 1) in all,
\* whatever the shape, its size, its centre and the separation are; the
\* horizontal ones step one column, the vertical ones one row.
C23_BackLayerSegmentCount ==
    LinesBuilt =>
        LET N == config.gridDensity
        IN  /\ Len(geometry.horizontalLinesBack) = N * (N + 1)
            /\ Len(geometry.verticalLinesBack) = N * (N + 1)
            /\ Len(backLines) = 2 * N * (N + 1)
            /\ \A n \in 1..Len(geometry.horizontalLinesBack) :
                    LET s == geometry.horizontalLinesBack[n]
                    IN  s.p2.i = s.p1.i + 1 /\ s.p2.j = s.p1.j
            /\ \A n \in 1..Len(geometry.verticalLinesBack) :
                    LET s == geometry.verticalLinesBack[n]
                    IN  s.p2.i = s.p1.i /\ s.p2.j = s.p1.j + 1

\* a lines-mode scene of a sphere away from the grid's centre
C23_Witness ==
    /\ LinesBuilt
    /\ config.shapeType = "sphere"
    /\ config.selectedPointX = 0
    /\ config.gridDensity = MaxDensity
    /\ Len(backLines) = 2 * MaxDensity * (MaxDensity + 1)

(***************************************************************************)
(* A further claim about classification.js (checked under SpecClassify).   *)
(***************************************************************************)
\* C24: for a shapeType that is neither 'cube' nor 'sphere', isInsideShape
\* and isOnShapeShell return false for every point, and so classifyPoint
\* returns 'cloth' for every point.
C24_UnknownShapeIsAllCloth ==
    shapeC \notin {"cube", "sphere"} =>
        /\ Called("isInsideShape") => ~ret.inside
        /\ Called("isOnShapeShell") => ~ret.onShell
        /\ Called("classifyPoint") => ret.cls = "cloth" /\ ret.first = "cloth"

\* all three functions were asked about the centre of an unknown shape
C24_Witness ==
    /\ shapeC = "triangle"
    /\ Called("isInsideShape") /\ Called("isOnShapeShell") /\ Called("classifyPoint")
    /\ dxC = 0 /\ dyC = 0 /\ kC > 0
    /\ ret.cls = "cloth"

\* the shape has a size, its centre is on the grid and slices are generated
\* (|zSeparation| > spacing, with spacing = 700 / gridDensity)
SlicedShape ==
    /\ PointsBuilt
    /\ config.cubeSize >= 1
    /\ config.selectedPointX \in 0..config.gridDensity
    /\ config.selectedPointY \in 0..config.gridDensity
    /\ Abs(config.zSeparation) * config.gridDensity > 700

\* p has full displacement: its distance from the centre is <= size - 1
FullyDisplacedG(p) == dist2G(p) <= kG * kG

\* slice s lies below the full displacement: s * spacing < |zSeparation|
BelowFrontG(s) == s * 700 < Abs(config.zSeparation) * config.gridDensity

\* C30 as stated: every generated slice s in [1, numSlices] contains every
\* point with full displacement, also when |zSeparation| is an exact multiple
\* of the spacing.
C30_EverySliceHoldsFullyDisplaced ==
    SlicedShape =>
        \A s \in 1..geometry.numSlices : \A p \in GridPoints :
            FullyDisplacedG(p) => InSlicePoints(s, p)

\* C30, amended: every generated slice that lies below the full displacement
\* (s * spacing < |zSeparation|) contains every point with full
\* displacement, the centre among them; when |zSeparation| is an exact
\* multiple of the spacing the last slice lies at the front height itself
\* and contains no point at all.
C30_SlicesBelowFrontHoldFullyDisplaced ==
    SlicedShape =>
        /\ FullyDisplacedG(<<config.selectedPointX, config.selectedPointY>>)
        /\ \A s \in 1..geometry.numSlices : \A p \in GridPoints :
              /\ (BelowFrontG(s) /\ FullyDisplacedG(p)) => InSlicePoints(s, p)
              /\ ~BelowFrontG(s) => ~InSlicePoints(s, p)

\* two slices of a shape, |zSeparation| exactly twice the spacing: the first
\* holds the fully displaced points and the second is empty
C30_Witness ==
    /\ SlicedShape
    /\ geometry.numSlices = 2
    /\ ~BelowFrontG(2)
    /\ \E p \in GridPoints :
          /\ p # <<config.selectedPointX, config.selectedPointY>>
          /\ FullyDisplacedG(p)
          /\ InSlicePoints(1, p)
          /\ ~InSlicePoints(2, p)

(***************************************************************************)
(* The page from the default config, under the density and the point       *)
(* sliders only: every density of the range is tried; a point slider is    *)
(* moved to any value up to its max on the small grids and to 0, 1 or the  *)
(* max on the default grid.                                                *)
(***************************************************************************)
SliderDensities == 1..MaxDensity

PointValues ==
    {v \in 0..pointSliderMax : v \in {0, 1, pointSliderMax} \/ pointSliderMax <= MaxDensity}

InitSliders ==
    /\ localStorage = NoItem
    /\ config = loadConfig(localStorage)
    /\ geometry = NoGeometry
    /\ UiIdle
    /\ OthersIdle
    /\ call = NoCall
    /\ ret = NoRet
    /\ point = <<0, 0>>
    /\ frontPoint = [made |-> FALSE, z |-> 0, pull |-> 0, class |-> NoRet]

SliderEvent ==
    /\ UNCHANGED <<events, previous>>
    /\ \/ \E value \in SliderDensities : densitySliderInput(value)
       \/ \E value \in PointValues : pointXSliderInput(value)
       \/ \E value \in PointValues : pointYSliderInput(value)

NextSliders == init \/ SliderEvent

SpecSliders == InitSliders /\ [][NextSliders]_vars

\* C29: from the default config, with the point sliders' max equal to
\* gridDensity, after any sequence of density, point-X and point-Y slider
\* events the selected point is on the grid every time updateVisualization
\* has run: 0 <= selectedPointX <= gridDensity and 0 <= selectedPointY <=
\* gridDensity (and the sliders' max is still gridDensity).
C29_SelectedPointStaysOnGrid ==
    geometry.built =>
        /\ config.selectedPointX \in 0..config.gridDensity
        /\ config.selectedPointY \in 0..config.gridDensity
        /\ pointSliderMax = config.gridDensity

\* the density was lowered below the selected point, which was pulled back
\* onto the grid's last row and column
C29_Witness ==
    /\ geometry.built
    /\ config.gridDensity < 10
    /\ config.selectedPointX = config.gridDensity
    /\ config.selectedPointY = config.gridDensity
    /\ pointSliderMax = config.gridDensity

(***************************************************************************)
(* script.js: one grid point of createGridLayers.  The 2D script measures  *)
(* the Chebyshev distance whatever the shape and pulls a point fully when  *)
(* its distance is < cubeSize.                                             *)
(***************************************************************************)
\* a number of the script: a value, or NaN where an operation has none
Finite(v) == [nan |-> FALSE, pull |-> v]

NaN == [nan |-> TRUE, pull |-> 0]

\* Math.max(dx, dy)
script_gridDistance(cfg, i, j) ==
    Max(Abs(i - cfg.selectedPointX), Abs(j - cfg.selectedPointY))

\* config.gridDensity * (config.influenceRadius / 100), in hundredths
script_influenceDistance(cfg) == cfg.gridDensity * cfg.influenceRadius

\* a falloff zone that takes in its outer edge
script_inFalloffZone_Inclusive(cfg, i, j) ==
    100 * script_gridDistance(cfg, i, j)
        <= 100 * cfg.cubeSize + script_influenceDistance(cfg)

\* gridDistance < cubeSize + influenceDistance
script_inFalloffZone(cfg, i, j) ==
    100 * script_gridDistance(cfg, i, j)
        < 100 * cfg.cubeSize + script_influenceDistance(cfg)

\* zPull of the point (i, j); a division by zero leaves NaN (the cosine of
\* NaN or of an infinity is NaN)
script_zPull(cfg, i, j) ==
    LET gridDistance == script_gridDistance(cfg, i, j)
        cubeSize == cfg.cubeSize
    IN  IF gridDistance < cubeSize
        THEN Finite(Num(cfg.zSeparation))
        ELSE IF script_inFalloffZone(cfg, i, j)
        THEN IF script_influenceDistance(cfg) = 0
             THEN NaN
             ELSE LET distanceFromCube == Num(gridDistance - cubeSize)
                      normalizedDist ==
                          (distanceFromCube * Scale) \div (script_influenceDistance(cfg) * 10)
                  IN  Finite(cfg.zSeparation * falloff(normalizedDist))
        ELSE Finite(0)

\* what the point (i, j) makes createGridLayers divide by: influenceDistance
\* in the falloff zone, nothing elsewhere
script_zPullDivisors(cfg, i, j) ==
    IF script_gridDistance(cfg, i, j) < cfg.cubeSize
    THEN {}
    ELSE IF script_inFalloffZone(cfg, i, j)
    THEN {script_influenceDistance(cfg)}
    ELSE {}

\* frontGrid[i][j] = { pos3D, pos2D, pull: zPull }
createGridLayers ==
    /\ ~frontGridPoint.made
    /\ LET zPull == script_zPull(config, point[1], point[2])
       IN  frontGridPoint' = [made |-> TRUE, pull |-> zPull.pull, nan |-> zPull.nan]
    /\ divisions' = Divided("createGridLayers",
                            script_zPullDivisors(config, point[1], point[2]))
    /\ UNCHANGED <<call, ret, config, point, frontPoint, localStorage, geometry,
                   uiVars, cloth, drape, frontGridGroup>>

\* the same point run through both scripts
NextDivide == BuildFrontPoint \/ createGridLayers

SpecDivide == InitPull /\ [][NextDivide]_vars

\* C25: no run of the displacement computation divides by influenceDistance
\* when it is 0, neither calculateZPull of script3d.js nor createGridLayers
\* of script.js: whatever they divided by is the positive influenceDistance,
\* and with influenceRadius 0 they divided by nothing.
C25_NoDivisionByZero ==
    /\ 0 \notin divisions.divisors
    /\ \A d \in divisions.divisors : d > 0 /\ d = config.gridDensity * config.influenceRadius
    /\ config.influenceRadius = 0 => divisions.divisors = {}
    /\ ~frontGridPoint.nan

\* both scripts ran on a point at the outer edge of the cube of script.js
\* (Chebyshev distance = cubeSize) with no influence: neither divided
C25_Witness ==
    /\ divisions.ran = {"calculateZPull", "createGridLayers"}
    /\ config.influenceRadius = 0
    /\ Max(Abs(dxP), Abs(dyP)) = config.cubeSize
    /\ divisions.divisors = {}
    /\ frontGridPoint.pull = 0 /\ frontPoint.pull = 0

(***************************************************************************)
(* part_010: the earlier script that draws the front layer with            *)
(* createGridLines, one polyline (THREE.Line) per column and per row of    *)
(* the points it is given; a null entry is a point left out.               *)
(***************************************************************************)
part010_defaults ==
    [gridDensity |-> 20, selectedPointX |-> 10, selectedPointY |-> 10,
     zSeparation |-> 200, cubeSize |-> 5, influenceRadius |-> 60,
     backGridAlpha |-> "0.5", frontGridAlpha |-> "1.0",
     connectionAlpha |-> "0.4", interiorAlpha |-> "0.3"]

\* gridDistance <= config.cubeSize - 1 (Chebyshev)
part010_isInsideCube(cfg, i, j) ==
    Max(Abs(i - cfg.selectedPointX), Abs(j - cfg.selectedPointY)) <= cfg.cubeSize - 1

part010_calculateZPull(cfg, i, j) ==
    LET gridDistance == Max(Abs(i - cfg.selectedPointX), Abs(j - cfg.selectedPointY))
        cubeSize == cfg.cubeSize
        influenceDistance_ == cfg.gridDensity * cfg.influenceRadius
    IN  IF gridDistance <= cubeSize - 1
        THEN Num(cfg.zSeparation)
        ELSE IF /\ influenceDistance_ > 0
                /\ 100 * gridDistance <= 100 * (cubeSize - 1) + influenceDistance_
        THEN LET distanceFromCube == Num(gridDistance - (cubeSize - 1))
                 normalizedDist == (distanceFromCube * Scale) \div (influenceDistance_ * 10)
             IN  cfg.zSeparation * falloff(normalizedDist)
        ELSE 0

\* an entry of a points array: a point of the grid, or null
null == [null |-> TRUE, i |-> 0, j |-> 0, z |-> 0, pull |-> 0]

\* frontPoints[i][j] = { x, y, z: backZ + zPull, pull: zPull }
part010_frontPoints(cfg) ==
    [i \in 0..cfg.gridDensity |-> [j \in 0..cfg.gridDensity |->
        LET zPull == part010_calculateZPull(cfg, i, j)
        IN  [null |-> FALSE, i |-> i, j |-> j, z |-> backZ + zPull, pull |-> zPull]]]

\* cubeFacePoints[i][j] = isInsideCube(i, j) ? frontPoints[i][j] : null
cubeFacePointsOf(cfg, frontPoints) ==
    [i \in 0..cfg.gridDensity |-> [j \in 0..cfg.gridDensity |->
        IF part010_isInsideCube(cfg, i, j) THEN frontPoints[i][j] ELSE null]]

\* stretchedPoints[i][j] = isInStretched ? frontPoints[i][j] : null
stretchedPointsOf(cfg, frontPoints) ==
    [i \in 0..cfg.gridDensity |-> [j \in 0..cfg.gridDensity |->
        IF /\ ~part010_isInsideCube(cfg, i, j)
           /\ Abs(frontPoints[i][j].pull) > Scale \div 10
        THEN frontPoints[i][j] ELSE null]]

\* the vertices pushed for one line: the entries that are not null, in order
polyline(entries) == SelectSeq(entries, LAMBDA p : ~p.null)

\* createGridLines(points): the vertical lines (one per i), then the
\* horizontal lines (one per j); a line without vertices is not added
createGridLines(cfg, points) ==
    LET n == cfg.gridDensity
        vertical == [k \in 1..(n + 1) |->
                        polyline([m \in 1..(n + 1) |-> points[k - 1][m - 1]])]
        horizontal == [k \in 1..(n + 1) |->
                        polyline([m \in 1..(n + 1) |-> points[m - 1][k - 1]])]
    IN  SelectSeq(vertical \o horizontal, LAMBDA line : Len(line) > 0)

\* the configs tried: the defaults, and small grids
LineConfigs ==
    {part010_defaults} \cup
    {[part010_defaults EXCEPT !.gridDensity = d, !.selectedPointX = x,
                              !.selectedPointY = y, !.cubeSize = c,
                              !.influenceRadius = r, !.zSeparation = z] :
        d \in Densities, x \in SavedPoints, y \in SavedPoints,
        c \in 1..MaxCubeSize, r \in InfluenceRadii, z \in {-200, 200}}

InitLines ==
    /\ config \in LineConfigs
    /\ call = NoCall
    /\ ret = NoRet
    /\ point = <<0, 0>>
    /\ frontPoint = [made |-> FALSE, z |-> 0, pull |-> 0, class |-> NoRet]
    /\ localStorage = NoItem
    /\ geometry = NoGeometry
    /\ UiIdle
    /\ OthersIdle

\* updateVisualization of part_010, as far as the front layer goes
part010_updateVisualization ==
    /\ ~frontGridGroup.built
    /\ LET frontPoints == part010_frontPoints(config)
       IN  frontGridGroup' =
               [built |-> TRUE,
                cubeFace |-> createGridLines(config, cubeFacePointsOf(config, frontPoints)),
                stretched |-> IF config.influenceRadius > 0
                              THEN createGridLines(config,
                                       stretchedPointsOf(config, frontPoints))
                              ELSE <<>>]
    /\ UNCHANGED <<call, ret, config, point, frontPoint, localStorage, geometry,
                   uiVars, frontGridPoint, divisions, cloth, drape>>

NextLines == part010_updateVisualization

SpecLines == InitLines /\ [][NextLines]_vars

\* every pair of consecutive vertices of every line joins grid neighbours
AdjacentOnly(lines) ==
    \A n \in 1..Len(lines) : \A k \in 1..(Len(lines[n]) - 1) :
        AdjacentG(<<lines[n][k].i, lines[n][k].j>>,
                  <<lines[n][k + 1].i, lines[n][k + 1].j>>)

\* C28: every segment createGridLines draws for the front layer, for the
\* cube face and for the stretched cloth, joins two grid-adjacent points:
\* leaving out the null points never makes a segment between points that are
\* not neighbours, such as across the cube.
C28_FrontSegmentsJoinNeighbours ==
    frontGridGroup.built =>
        /\ AdjacentOnly(frontGridGroup.cubeFace)
        /\ AdjacentOnly(frontGridGroup.stretched)

(***************************************************************************)
(* cube-grid.js: createCloth.  The cube is unrotated, as in the default    *)
(* config, and cubeSize is a multiple of gridDensity.  Positions in the    *)
(* floor plane are kept doubled (x2 = 2 x), which makes the half-spacing   *)
(* sample positions and the grid's half extent whole numbers; heights are  *)
(* in Scale units; clothStiffness is in Scale units and is 0, 0.5 or 1, so *)
(* that the exponent 1 + 4 * clothStiffness is a whole number.             *)
(***************************************************************************)
MaxClothDensity == 3

maxIterations == 20

constraintIterations == 10

cubeGrid_defaults ==
    [gridDensity |-> 10, cubeSize |-> 300, floorSize |-> 800,
     clothStiffness |-> 0, clothExtension |-> 3,
     cubeRotationX |-> 0, cubeRotationY |-> 0, cubeRotationZ |-> 0]

\* gridSpacing = config.cubeSize / config.gridDensity
gridSpacingOf(cfg) == cfg.cubeSize \div cfg.gridDensity

\* numCellsX = numCellsZ = Math.floor(config.floorSize / gridSpacing)
numCellsOf(cfg) == cfg.floorSize \div gridSpacingOf(cfg)

\* x = -halfX + (i * gridSpacing), doubled
clothX2(cfg, i) == 2 * i * gridSpacingOf(cfg) - numCellsOf(cfg) * gridSpacingOf(cfg)

\* sampleDensity = config.gridDensity * 2
sampleDensityOf(cfg) == cfg.gridDensity * 2

\* u = -s + (i * sampleSpacing), doubled; sampleSpacing is half a gridSpacing
sampleU2(cfg, i) == i * gridSpacingOf(cfg) - cfg.cubeSize

\* i * sampleSpacing, the height of a sample above the floor, in Scale units
sampleHeight(cfg, i) == (i * Num(cfg.cubeSize)) \div sampleDensityOf(cfg)

\* cubeSurfacePoints[k], k counted from 0: six points are pushed per sample
\* (i, j), for the top, bottom, front, back, left and right face; each is
\* given by its doubled x and z and its height point.y - floorY
cubeSurfacePoint(cfg, k) ==
    LET face == k % 6
        j == (k \div 6) % (sampleDensityOf(cfg) + 1)
        i == (k \div 6) \div (sampleDensityOf(cfg) + 1)
        u == sampleU2(cfg, i)
        v == sampleU2(cfg, j)
        s == cfg.cubeSize
    IN  IF face = 0 THEN [x |-> u, z |-> v, height |-> Num(cfg.cubeSize)]
        ELSE IF face = 1 THEN [x |-> u, z |-> v, height |-> 0]
        ELSE IF face = 2 THEN [x |-> u, z |-> s, height |-> sampleHeight(cfg, j)]
        ELSE IF face = 3 THEN [x |-> u, z |-> 0 - s, height |-> sampleHeight(cfg, j)]
        ELSE IF face = 4 THEN [x |-> 0 - s, z |-> v, height |-> sampleHeight(cfg, i)]
        ELSE [x |-> s, z |-> v, height |-> sampleHeight(cfg, i)]

\* cubeSurfacePoints.length
surfaceCount(cfg) == 6 * (sampleDensityOf(cfg) + 1) * (sampleDensityOf(cfg) + 1)

\* the least of ds[lo..hi]
RECURSIVE MinRange(_, _, _)
MinRange(ds, lo, hi) ==
    IF lo = hi THEN ds[lo]
    ELSE LET mid == (lo + hi) \div 2
             a == MinRange(ds, lo, mid)
             b == MinRange(ds, mid + 1, hi)
         IN  IF a <= b THEN a ELSE b

\* the first index in lo..hi where ds is m, or -1
RECURSIVE FirstAt(_, _, _, _)
FirstAt(ds, m, lo, hi) ==
    IF lo = hi THEN (IF ds[lo] = m THEN lo ELSE -1)
    ELSE LET mid == (lo + hi) \div 2
             a == FirstAt(ds, m, lo, mid)
         IN  IF a >= 0 THEN a ELSE FirstAt(ds, m, mid + 1, hi)

\* the greatest element of a non-empty set of numbers
SetMax(S) == CHOOSE x \in S : \A y \in S : y <= x

\* Math.pow(base, exponent) for a whole exponent >= 1, base in Scale units
RECURSIVE Pow(_, _)
Pow(base, exponent) ==
    IF exponent <= 1 THEN base ELSE (base * Pow(base, exponent - 1)) \div Scale

\* calculateYDisplacement(x, z) for the grid point (i, j)
calculateYDisplacement(cfg, i, j) ==
    LET x == clothX2(cfg, i)
        z == clothX2(cfg, j)
        last == surfaceCount(cfg) - 1
        \* xzDist squared, doubled positions
        ds == [k \in 0..last |->
                  LET point_ == cubeSurfacePoint(cfg, k)
                  IN  (point_.x - x) * (point_.x - x) + (point_.z - z) * (point_.z - z)]
        searchRadius2 == 2 * (cfg.clothExtension + 2) * gridSpacingOf(cfg)
        \* xzDist <= searchRadius and xzDist < gridSpacing * 0.5
        close == {k \in 0..last : /\ ds[k] <= searchRadius2 * searchRadius2
                                  /\ ds[k] < gridSpacingOf(cfg) * gridSpacingOf(cfg)}
        maxHeight == SetMax({0} \cup {cubeSurfacePoint(cfg, k).height : k \in close})
        \* the first point at the least distance: xzDist < minDistance
        minDistance2 == MinRange(ds, 0, last)
        nearestHeight == cubeSurfacePoint(cfg, FirstAt(ds, minDistance2, 0, last)).height
        influenceDistance2 == 2 * cfg.clothExtension * gridSpacingOf(cfg)
    IN  IF maxHeight > 0 THEN maxHeight
        ELSE IF nearestHeight > 0
        THEN IF \/ influenceDistance2 = 0
                \/ minDistance2 > influenceDistance2 * influenceDistance2
             THEN 0
             ELSE LET normalizedDistance ==
                          (SqrtFloor(minDistance2 * 100) * 100) \div influenceDistance2
                      exponent == 1 + (4 * cfg.clothStiffness) \div Scale
                      falloff_ == Scale - Pow(normalizedDistance, exponent)
                  IN  Max(0, (nearestHeight * falloff_) \div Scale)
        ELSE 0

\* first pass: idealHeights[i][j]
idealHeightsOf(cfg) ==
    [i \in 0..numCellsOf(cfg) |-> [j \in 0..numCellsOf(cfg) |->
        calculateYDisplacement(cfg, i, j)]]

\* the heights of the grid neighbours of (i, j), as the code visits them
neighbourHeights(heights, n, i, j) ==
    (IF i > 0 THEN <<heights[i - 1][j]>> ELSE <<>>)
    \o (IF i < n THEN <<heights[i + 1][j]>> ELSE <<>>)
    \o (IF j > 0 THEN <<heights[i][j - 1]>> ELSE <<>>)
    \o (IF j < n THEN <<heights[i][j + 1]>> ELSE <<>>)

\* the sum of a sequence of at most four numbers
RECURSIVE Sum(_)
Sum(seq) == IF seq = <<>> THEN 0 ELSE Head(seq) + Sum(Tail(seq))

Range(seq) == {seq[k] : k \in 1..Len(seq)}

\* a smoothing that forgets the ideal height
smoothed_Unsupported(cfg, idealHeights, heights, i, j) ==
    LET currentHeight == heights[i][j]
        neighbours == neighbourHeights(heights, numCellsOf(cfg), i, j)
        neighborAverage == IF Len(neighbours) > 0
                           THEN Sum(neighbours) \div Len(neighbours)
                           ELSE currentHeight
    IN  currentHeight + (cfg.clothStiffness * (neighborAverage - currentHeight)) \div Scale

\* second pass, one point: newHeights[i][j] = Math.max(smoothedHeight, idealHeight)
smoothed(cfg, idealHeights, heights, i, j) ==
    LET currentHeight == heights[i][j]
        idealHeight == idealHeights[i][j]
        neighbours == neighbourHeights(heights, numCellsOf(cfg), i, j)
        neighborAverage == IF Len(neighbours) > 0
                           THEN Sum(neighbours) \div Len(neighbours)
                           ELSE currentHeight
        smoothedHeight ==
            currentHeight + (cfg.clothStiffness * (neighborAverage - currentHeight)) \div Scale
    IN  Max(smoothedHeight, idealHeight)

\* maxHeightDiff = gridSpacing * 1.5
maxHeightDiffOf(cfg) == (Num(gridSpacingOf(cfg)) * 3) \div 2

\* third pass, one point
constrained(cfg, idealHeights, heights, i, j) ==
    LET currentHeight == heights[i][j]
        idealHeight == idealHeights[i][j]
        neighbours == neighbourHeights(heights, numCellsOf(cfg), i, j)
        maxNeighborHeight == SetMax({currentHeight} \cup Range(neighbours))
        lowered == IF currentHeight > maxNeighborHeight + maxHeightDiffOf(cfg)
                   THEN Max(maxNeighborHeight + maxHeightDiffOf(cfg), idealHeight)
                   ELSE currentHeight
    IN  IF Len(neighbours) > 0
        THEN LET minNeighborHeight == 0 - SetMax({0 - h : h \in Range(neighbours)})
             IN  IF currentHeight < minNeighborHeight - maxHeightDiffOf(cfg)
                 THEN Max(minNeighborHeight - maxHeightDiffOf(cfg), idealHeight)
                 ELSE lowered
        ELSE lowered

\* the cloth configs tried: the small grids, soft to stiff, clinging or
\* extending three steps
ClothConfigs ==
    {[cubeGrid_defaults EXCEPT !.gridDensity = d, !.clothStiffness = st,
                               !.clothExtension = e] :
        d \in (MaxClothDensity - 1)..MaxClothDensity,
        st \in {0, Scale \div 2, Scale}, e \in {0, 3}}

\* createCloth up to the end of the first pass; heights starts as a copy
createCloth_firstPass ==
    /\ cloth.config # NoConfig
    /\ cloth.pass = "none"
    /\ LET idealHeights == idealHeightsOf(cloth.config)
       IN  cloth' = [cloth EXCEPT !.pass = "second", !.iter = 0,
                                  !.idealHeights = idealHeights,
                                  !.heights = idealHeights]
    /\ UNCHANGED <<call, ret, config, point, frontPoint, localStorage, geometry,
                   uiVars, frontGridPoint, divisions, drape, frontGridGroup>>

\* one iteration of the smoothing loop
createCloth_secondPass ==
    /\ cloth.pass = "second"
    /\ cloth.iter < maxIterations
    /\ cloth' = [cloth EXCEPT !.iter = @ + 1, !.heights =
           [i \in 0..numCellsOf(cloth.config) |-> [j \in 0..numCellsOf(cloth.config) |->
               smoothed(cloth.config, cloth.idealHeights, cloth.heights, i, j)]]]
    /\ UNCHANGED <<call, ret, config, point, frontPoint, localStorage, geometry,
                   uiVars, frontGridPoint, divisions, drape, frontGridGroup>>

\* one iteration of the constraint loop, which follows the smoothing loop
createCloth_thirdPass ==
    /\ \/ cloth.pass = "second" /\ cloth.iter = maxIterations
       \/ cloth.pass = "third" /\ cloth.iter < constraintIterations
    /\ cloth' = [cloth EXCEPT !.pass = "third",
                              !.iter = IF cloth.pass = "second" THEN 1 ELSE @ + 1,
                              !.heights =
           [i \in 0..numCellsOf(cloth.config) |-> [j \in 0..numCellsOf(cloth.config) |->
               constrained(cloth.config, cloth.idealHeights, cloth.heights, i, j)]]]
    /\ UNCHANGED <<call, ret, config, point, frontPoint, localStorage, geometry,
                   uiVars, frontGridPoint, divisions, drape, frontGridGroup>>

(***************************************************************************)
(* grid-drape.js: the collision heights and the relaxation loop of         *)
(* updateVisualization.  The collider is the unrotated box of the default  *)
(* config with a positive zSeparation: a ray hits its top face above the   *)
(* grid points within cubeSize of (cubeX, cubeY); a ray that runs exactly  *)
(* along a side wall (distance = cubeSize) may hit or miss.                *)
(***************************************************************************)
gridDrape_defaults ==
    [gridDensity |-> 25, cubeX |-> 12, cubeY |-> 12, zSeparation |-> 250,
     cubeSize |-> 6, influenceRadius |-> 70, shapeType |-> "cube",
     rotationX |-> 0, rotationY |-> 0, rotationZ |-> 0]

\* const backZ = -200
drapeBackZ == Num(-200)

\* collisionZ[i][j]: Math.max(intersects[0].point.z, backZ), or backZ
collisionZOf(cfg, edgeHit) ==
    [i \in 0..cfg.gridDensity |-> [j \in 0..cfg.gridDensity |->
        LET away == Max(Abs(i - cfg.cubeX), Abs(j - cfg.cubeY))
        IN  IF away < cfg.cubeSize \/ (away = cfg.cubeSize /\ edgeHit)
            THEN Max(drapeBackZ + Num(cfg.zSeparation), drapeBackZ)
            ELSE drapeBackZ]]

\* iterations = Math.floor(config.influenceRadius / 2) + 1
iterationsOf(cfg) == cfg.influenceRadius \div 2 + 1

\* nextZ[i][j] = Math.max(average, collisionZ[i][j])
relaxed(cfg, collisionZ, currentZ, i, j) ==
    LET neighbours == neighbourHeights(currentZ, cfg.gridDensity, i, j)
        average == IF Len(neighbours) > 0 THEN Sum(neighbours) \div Len(neighbours)
                   ELSE currentZ[i][j]
    IN  Max(average, collisionZ[i][j])

DrapeConfigs ==
    {c \in {[gridDrape_defaults EXCEPT !.gridDensity = d, !.cubeX = x, !.cubeY = y,
                                       !.cubeSize = size, !.influenceRadius = r] :
               d \in Densities, x \in SavedPoints, y \in SavedPoints,
               size \in 1..2, r \in {0, 4}} :
        c.cubeX <= c.gridDensity /\ c.cubeY <= c.gridDensity}

\* updateVisualization up to the start of the relaxation: the rays are cast
\* and currentZ starts as a copy of collisionZ
gridDrape_collide ==
    /\ drape.config # NoConfig
    /\ drape.pass = "none"
    /\ \E edgeHit \in BOOLEAN :
          LET collisionZ == collisionZOf(drape.config, edgeHit)
          IN  drape' = [drape EXCEPT !.pass = "relaxation", !.iter = 0,
                                     !.collisionZ = collisionZ,
                                     !.currentZ = collisionZ]
    /\ UNCHANGED <<call, ret, config, point, frontPoint, localStorage, geometry,
                   uiVars, frontGridPoint, divisions, cloth, frontGridGroup>>

\* one iteration of the relaxation loop
gridDrape_relax ==
    /\ drape.pass = "relaxation"
    /\ drape.iter < iterationsOf(drape.config)
    /\ drape' = [drape EXCEPT !.iter = @ + 1, !.currentZ =
           [i \in 0..drape.config.gridDensity |-> [j \in 0..drape.config.gridDensity |->
               relaxed(drape.config, drape.collisionZ, drape.currentZ, i, j)]]]
    /\ UNCHANGED <<call, ret, config, point, frontPoint, localStorage, geometry,
                   uiVars, frontGridPoint, divisions, cloth, frontGridGroup>>

(***************************************************************************)
(* One of the two cloth pages is open.                                     *)
(***************************************************************************)
InitCloth ==
    /\ \/ /\ cloth \in {[NoCloth EXCEPT !.config = c] : c \in ClothConfigs}
          /\ drape = NoDrape
       \/ /\ drape \in {[NoDrape EXCEPT !.config = c] : c \in DrapeConfigs}
          /\ cloth = NoCloth
    /\ frontGridPoint = NoFrontGrid
    /\ divisions = NoDivisions
    /\ frontGridGroup = NoLines
    /\ config = NoConfig
    /\ call = NoCall
    /\ ret = NoRet
    /\ point = <<0, 0>>
    /\ frontPoint = [made |-> FALSE, z |-> 0, pull |-> 0, class |-> NoRet]
    /\ localStorage = NoItem
    /\ geometry = NoGeometry
    /\ UiIdle

NextCloth ==
    \/ createCloth_firstPass
    \/ createCloth_secondPass
    \/ createCloth_thirdPass
    \/ gridDrape_collide
    \/ gridDrape_relax

SpecCloth == InitCloth /\ [][NextCloth]_vars

\* the points of the cloth grid and its pairs of 4-neighbours
ClothPoints == (0..numCellsOf(cloth.config)) \X (0..numCellsOf(cloth.config))

clothHeight(p) == cloth.heights[p[1]][p[2]]

ConstraintPassDone == cloth.pass = "third" /\ cloth.iter = constraintIterations

\* C26: after the third (constraint) pass of createCloth every two
\* 4-adjacent points of the cloth grid differ in height by at most
\* maxHeightDiff = 1.5 * gridSpacing.
C26_AdjacentHeightsWithinMaxDiff ==
    ConstraintPassDone =>
        \A p \in ClothPoints : \A q \in ClothPoints :
            AdjacentG(p, q) =>
                Abs(clothHeight(p) - clothHeight(q)) <= maxHeightDiffOf(cloth.config)

\* C27: in the relaxation loops the cloth never goes below what it lies on:
\* in createCloth every height is >= the ideal height of its point, which is
\* >= 0 (the floor), from the first pass on and after every iteration of the
\* smoothing and of the constraint loop; in grid-drape.js every currentZ is
\* >= the collisionZ of its point, which is >= backZ, after every iteration
\* of the relaxation.
C27_ClothNeverBelowCollision ==
    /\ cloth.pass # "none" =>
          \A p \in ClothPoints :
              /\ clothHeight(p) >= cloth.idealHeights[p[1]][p[2]]
              /\ cloth.idealHeights[p[1]][p[2]] >= 0
    /\ drape.pass # "none" =>
          \A i \in 0..drape.config.gridDensity : \A j \in 0..drape.config.gridDensity :
              /\ drape.currentZ[i][j] >= drape.collisionZ[i][j]
              /\ drape.collisionZ[i][j] >= drapeBackZ

\* all three passes of createCloth are done: the smoothing has lifted a point
\* above its ideal height, next to a point that rests on the cube
C27_Witness ==
    /\ ConstraintPassDone
    /\ \E p \in ClothPoints : \E q \in ClothPoints :
          /\ AdjacentG(p, q)
          /\ clothHeight(p) > cloth.idealHeights[p[1]][p[2]]
          /\ clothHeight(q) = cloth.idealHeights[q[1]][q[2]]
          /\ clothHeight(q) > 0

=============================================================================
